---- MODULE Spec2Model ----
(***************************************************************************)
(* A model of pyrs990: the composite Index (index.py), the index builders  *)
(* (annual_record.py, bmf_record.py), the Result pipeline (result.py) and  *)
(* the HTTPDownloader with its caches (downloader.py, cache.py).           *)
(*                                                                         *)
(* Python values are modelled as follows.                                  *)
(*   Optional[T]   a sequence: <<>> is None, <<v>> is the value v          *)
(*   dict          a sequence of [key, val] entries in insertion order,    *)
(*                 keys distinct; == on dicts ignores the order            *)
(*   object        a record with an id (its identity) and its contents     *)
(*   str (texts)   a sequence of one-character strings                     *)
(***************************************************************************)
EXTENDS Integers, Sequences, FiniteSets, TLC

VARIABLES
    annual_indices,   \* Index._annual_indices (class attribute, a list)
    annual_years,     \* Index._annual_years   (class attribute, a set)
    bmf_indices,      \* Index._bmf_indices    (class attribute, a list)
    bmf_regions,      \* Index._bmf_regions    (class attribute, a set)
    filters,          \* Index._filters        (class attribute, a set)
    registered,       \* the filters of the set in the order add_filter added them
    length,           \* Index._length, per Index instance
    annual_registry,  \* annual_record._annual_indices (module global, a dict)
    bmf_registry,     \* bmf_record._bmf_indices (module global, a dict)
    heap,             \* the index objects the builders created, by identity
    fetches,          \* how often Downloader.fetch was called, per key
    returned,         \* the objects the builders returned so far, per key
    ncalls,           \* how many builder calls were made
    results,          \* the Result objects constructed so far
    gen,              \* the generator of the Result iteration in progress
    fetch_log,        \* the fetches that iteration issued, in order
    pulled,           \* the Filings the consumer pulled from it, in order
    cache,            \* the Cache object the HTTPDownloader was given
    cache_dict,       \* MemoryCache._dict
    cache_files,      \* the files of the DirectoryCache's directory
    requests,         \* the answers of requests.get counted, per document key
    writes,           \* how often a cache file was written, per document key
    served,           \* how often fetch returned a document, per document key
    nfetch,           \* how many fetch calls were made
    puts,             \* the put calls callers made on the caches, in order
    app,              \* app.run: where it is, its options, what it did
    from_file,        \* Querier.from_file: where it is, its local content
    lastCall          \* the most recent call and what it returned or raised

indexVars == <<annual_indices, annual_years, bmf_indices, bmf_regions,
               filters, registered, length>>

buildVars == <<annual_registry, bmf_registry, heap, fetches, returned, ncalls>>

resultVars == <<results, gen, fetch_log, pulled>>

fetchVars == <<cache, cache_dict, cache_files, requests, writes, served,
               nfetch, puts>>

vars == <<annual_indices, annual_years, bmf_indices, bmf_regions,
          filters, registered, length, annual_registry, bmf_registry, heap, fetches,
          returned, ncalls, results, gen, fetch_log, pulled, cache,
          cache_dict, cache_files, requests, writes, served, nfetch, puts,
          app, from_file, lastCall>>

----------------------------------------------------------------------------
(* Python values *)

None == <<>>

Some(v) == <<v>>

Entry(k, v) == [key |-> k, val |-> v]

DictKeys(d) == {d[i].key : i \in DOMAIN d}

DictHas(d, k) == \E i \in DOMAIN d : d[i].key = k

DictGet(d, k) == d[CHOOSE i \in DOMAIN d : d[i].key = k].val

DictValues(d) == [i \in DOMAIN d |-> d[i].val]

DictItems(d) == {<<d[i].key, d[i].val>> : i \in DOMAIN d}

\* dict.__eq__: the same keys with equal values, whatever the order
DictEq(d1, d2) == DictItems(d1) = DictItems(d2)

\* x == y on two index objects as list.__contains__ and list.remove apply
\* it: identity first, then dict equality
PyEq(o1, o2) == o1.id = o2.id \/ DictEq(o1.d, o2.d)

\* x in list
ListContains(l, x) == \E i \in DOMAIN l : PyEq(l[i], x)

\* list.remove(x): drops the first element equal to x
ListRemove(l, x) ==
    LET i == CHOOSE j \in DOMAIN l :
                 PyEq(l[j], x) /\ \A m \in 1..(j - 1) : ~PyEq(l[m], x)
    IN  SubSeq(l, 1, i - 1) \o SubSeq(l, i + 1, Len(l))

RECURSIVE Concat(_)
Concat(ss) == IF ss = <<>> THEN <<>> ELSE Head(ss) \o Concat(Tail(ss))

----------------------------------------------------------------------------
(* Records and the index objects callers register *)

EINs == {"111", "222", "333"}

AnnualRecord(ein, object_id) == [ein |-> ein, object_id |-> object_id]

BMFRecord(ein, zip) == [ein |-> ein, zip |-> zip]

AnnualYears == {2018, 2019}

BMFRegions == {"mt", "id"}

\* AnnualIndex objects: a dict EIN -> AnnualRecord, keyed by the record's ein.
\* a3 equals a1 in contents (in another order) and is another object.
AnnualIndexObjects ==
    { [id |-> "a1", d |-> << Entry("111", AnnualRecord("111", "d1")),
                             Entry("222", AnnualRecord("222", "d2")) >>],
      [id |-> "a2", d |-> << Entry("111", AnnualRecord("111", "d3")),
                             Entry("333", AnnualRecord("333", "d4")) >>],
      [id |-> "a3", d |-> << Entry("222", AnnualRecord("222", "d2")),
                             Entry("111", AnnualRecord("111", "d1")) >>] }

\* BMFIndex objects: a dict EIN -> BMFRecord, keyed by the record's ein.
\* b3 equals b1 in contents (in another order) and is another object.
BMFIndexObjects ==
    { [id |-> "b1", d |-> << Entry("111", BMFRecord("111", "59801")),
                             Entry("333", BMFRecord("333", "59801")) >>],
      [id |-> "b2", d |-> << Entry("222", BMFRecord("222", "83843")),
                             Entry("111", BMFRecord("111", "59801")),
                             Entry("333", BMFRecord("333", "83843")) >>],
      [id |-> "b3", d |-> << Entry("333", BMFRecord("333", "59801")),
                             Entry("111", BMFRecord("111", "59801")) >>] }

IndexRecord(annual_record, bmf_record) ==
    [annual_record |-> annual_record, bmf_record |-> bmf_record]

\* IndexFilter callbacks, as filter_index_record builds them from a mapping
\* of field name to pattern; each is named by its mapping.
IndexFilters == {"zip=59801", "object_id=d[12]"}

IndexFilterCall(cb, index_record) ==
    IF cb = "zip=59801"
    THEN index_record.bmf_record.zip = "59801"
    ELSE index_record.annual_record.object_id \in {"d1", "d2"}

\* The Index instances of the process: the one app.run constructs, and
\* another one a caller of the library constructs.
Instances == {"index", "other"}

AppInstances == {"index"}

----------------------------------------------------------------------------
(* Index *)

\* JoinPair with the BMF record taken by position instead of by EIN
JoinPair_positional(annual_index, bmf_index) ==
    LET values == DictValues(annual_index.d)
        others == DictValues(bmf_index.d)
        passed(r) == \A cb \in filters : IndexFilterCall(cb, r)
        step(i) ==
            IF i \notin DOMAIN others
            THEN << >>
            ELSE LET index_record == IndexRecord(values[i], others[i])
                 IN  IF passed(index_record)
                     THEN << index_record >>
                     ELSE << >>
    IN  Concat([i \in DOMAIN values |-> step(i)])

\* The body of the three nested loops of Index.__iter__ for one annual
\* index and one BMF index: the records it yields, in order.
JoinPair(annual_index, bmf_index) ==
    LET values == DictValues(annual_index.d)
        passed(r) == \A cb \in filters : IndexFilterCall(cb, r)
        step(i) ==
            LET annual_record == values[i]
                ein == annual_record.ein
            IN  IF ~DictHas(bmf_index.d, ein)
                THEN << >>
                ELSE LET index_record ==
                             IndexRecord(annual_record,
                                         DictGet(bmf_index.d, ein))
                     IN  IF passed(index_record)
                         THEN << index_record >>
                         ELSE << >>
    IN  Concat([i \in DOMAIN values |-> step(i)])

\* The orders in which iteration of a set may give its elements
SetOrders(S) ==
    {f \in [1..Cardinality(S) -> S] :
        \A i, j \in 1..Cardinality(S) : f[i] = f[j] => i = j}

\* The records the three nested loops join for one annual index and one BMF
\* index, before the filters are called
Joined(annual_index, bmf_index) ==
    LET values == DictValues(annual_index.d)
        step(i) ==
            IF ~DictHas(bmf_index.d, values[i].ein)
            THEN << >>
            ELSE << IndexRecord(values[i],
                                DictGet(bmf_index.d, values[i].ein)) >>
    IN  Concat([i \in DOMAIN values |-> step(i)])

\* The loop over self._filters for one record, the set giving its
\* callbacks in the order fs: the callbacks called, up to and including the
\* first that fails
RECURSIVE IndexCalled(_, _)
IndexCalled(fs, index_record) ==
    IF fs = << >>
    THEN << >>
    ELSE IF ~IndexFilterCall(Head(fs), index_record)
         THEN << Head(fs) >>
         ELSE << Head(fs) >> \o IndexCalled(Tail(fs), index_record)

\* What a full iteration does for each joined record, in order: the
\* callbacks it calls and whether it yields the record
IterCalls(order) ==
    LET joined ==
            Concat([a \in DOMAIN annual_indices |->
                      Concat([b \in DOMAIN bmf_indices |->
                                Joined(annual_indices[a], bmf_indices[b])])])
    IN  [i \in DOMAIN joined |->
            LET called == IndexCalled(order, joined[i])
            IN  [record |-> joined[i], called |-> called,
                 yielded |-> \A j \in DOMAIN called :
                                 IndexFilterCall(called[j], joined[i])]]

\* __iter__ with the loop over the BMF indices outside the loop over the
\* annual indices
IndexIter_bmf_outside ==
    Concat([b \in DOMAIN bmf_indices |->
              Concat([a \in DOMAIN annual_indices |->
                        JoinPair(annual_indices[a], bmf_indices[b])])])

\* Index.__iter__ run to exhaustion
IndexIter ==
    Concat([a \in DOMAIN annual_indices |->
              Concat([b \in DOMAIN bmf_indices |->
                        JoinPair(annual_indices[a], bmf_indices[b])])])

\* What a caller can observe of the Index: the records iteration yields,
\* the object ids object_ids() yields, the value length() returns.
\* object_ids that yields the ein of each record
ObjectIdsOf_ein(records) ==
    [i \in DOMAIN records |-> records[i].annual_record.ein]

ObjectIdsOf(records) ==
    [i \in DOMAIN records |-> records[i].annual_record.object_id]

ObjectIds == ObjectIdsOf(IndexIter)

LengthOf(self, records) ==
    IF length[self] # None THEN length[self][1] ELSE Len(records)

LengthReturns(self) == LengthOf(self, IndexIter)

Observed ==
    LET records == IndexIter
    IN  <<records, ObjectIdsOf(records),
          [i \in Instances |-> LengthOf(i, records)]>>

\* Whether the call being made repeats the call made just before it: the
\* same operation on the same instance with the same key.
Again(op, self, key) ==
    lastCall.op = op /\ lastCall.self = self /\ lastCall.key = key

\* Whether the list holds this very object (x is l[i] for some i).
Holds(l, x) == \E i \in DOMAIN l : l[i].id = x.id

\* iter(index) run to exhaustion.  The loop over the set self._filters
\* takes the callbacks in the order the set's hash table gives, which may be
\* any order of them.
Index_iter(self) ==
    /\ \E order \in SetOrders(filters) :
           lastCall' = [op |-> "iter", self |-> self, ret |-> IndexIter,
                        order |-> order, calls |-> IterCalls(order)]
    /\ UNCHANGED indexVars
    /\ UNCHANGED <<buildVars, resultVars, fetchVars, app, from_file>>

Index_len(self) ==
    LET ret == LengthReturns(self)
    IN  /\ length' = [length EXCEPT ![self] = Some(ret)]
        /\ lastCall' = [op |-> "len", self |-> self, ret |-> ret]
        /\ UNCHANGED <<annual_indices, annual_years, bmf_indices,
                       bmf_regions, filters, registered>>
        /\ UNCHANGED <<buildVars, resultVars, fetchVars, app, from_file>>

\* add_annual_index without the check of _annual_years
Index_add_annual_index_always(self, year, annual_index) ==
    /\ length' = [length EXCEPT ![self] = None]
    /\ annual_indices' = Append(annual_indices, annual_index)
    /\ annual_years' = annual_years \cup {year}
    /\ lastCall' = [op |-> "add_annual_index", self |-> self, key |-> year,
                    again |-> Again("add_annual_index", self, year),
                    held |-> Holds(annual_indices', annual_index),
                    before |-> Observed]
    /\ UNCHANGED <<bmf_indices, bmf_regions, filters, registered>>
    /\ UNCHANGED <<buildVars, resultVars, fetchVars, app, from_file>>

Index_add_annual_index(self, year, annual_index) ==
    /\ IF year \notin annual_years
       THEN /\ length' = [length EXCEPT ![self] = None]
            /\ annual_indices' = Append(annual_indices, annual_index)
            /\ annual_years' = annual_years \cup {year}
       ELSE UNCHANGED <<length, annual_indices, annual_years>>
    /\ lastCall' = [op |-> "add_annual_index", self |-> self, key |-> year,
                    again |-> Again("add_annual_index", self, year),
                    held |-> Holds(annual_indices', annual_index),
                    before |-> Observed]
    /\ UNCHANGED <<bmf_indices, bmf_regions, filters, registered>>
    /\ UNCHANGED <<buildVars, resultVars, fetchVars, app, from_file>>

Index_add_bmf_index(self, region, bmf_index) ==
    /\ IF region \notin bmf_regions
       THEN /\ length' = [length EXCEPT ![self] = None]
            /\ bmf_indices' = Append(bmf_indices, bmf_index)
            /\ bmf_regions' = bmf_regions \cup {region}
       ELSE UNCHANGED <<length, bmf_indices, bmf_regions>>
    /\ lastCall' = [op |-> "add_bmf_index", self |-> self, key |-> region,
                    again |-> Again("add_bmf_index", self, region),
                    held |-> Holds(bmf_indices', bmf_index),
                    before |-> Observed]
    /\ UNCHANGED <<annual_indices, annual_years, filters, registered>>
    /\ UNCHANGED <<buildVars, resultVars, fetchVars, app, from_file>>

Index_add_filter(self, cb) ==
    /\ IF cb \notin filters
       THEN /\ length' = [length EXCEPT ![self] = None]
            /\ filters' = filters \cup {cb}
            /\ registered' = Append(registered, cb)
       ELSE UNCHANGED <<length, filters, registered>>
    /\ lastCall' = [op |-> "add_filter", self |-> self, arg |-> cb,
                    was |-> filters, before |-> Observed]
    /\ UNCHANGED <<annual_indices, annual_years, bmf_indices, bmf_regions>>
    /\ UNCHANGED <<buildVars, resultVars, fetchVars, app, from_file>>

Index_object_ids(self) ==
    /\ lastCall' = [op |-> "object_ids", self |-> self, ret |-> ObjectIds]
    /\ UNCHANGED indexVars
    /\ UNCHANGED <<buildVars, resultVars, fetchVars, app, from_file>>

\* remove_filter that keeps the memoized length
Index_remove_filter_keeps_length(self, cb) ==
    /\ filters' = filters \ {cb}
    /\ registered' = SelectSeq(registered, LAMBDA f : f # cb)
    /\ lastCall' = [op |-> "remove_filter", self |-> self, arg |-> cb,
                    raised |-> FALSE, was |-> filters, before |-> Observed]
    /\ UNCHANGED <<annual_indices, annual_years, bmf_indices, bmf_regions,
                   length>>
    /\ UNCHANGED <<buildVars, resultVars, fetchVars, app, from_file>>

\* remove_filter that removes from the set without the check of membership
Index_remove_filter_unchecked(self, cb) ==
    /\ IF cb \in filters
       THEN /\ length' = [length EXCEPT ![self] = None]
            /\ filters' = filters \ {cb}
            /\ registered' = SelectSeq(registered, LAMBDA f : f # cb)
            /\ lastCall' = [op |-> "remove_filter", self |-> self,
                            arg |-> cb, raised |-> FALSE, was |-> filters,
                            before |-> Observed]
       ELSE /\ lastCall' = [op |-> "remove_filter", self |-> self,
                            arg |-> cb, raised |-> TRUE, was |-> filters,
                            before |-> Observed]
            /\ UNCHANGED <<length, filters, registered>>
    /\ UNCHANGED <<annual_indices, annual_years, bmf_indices, bmf_regions>>
    /\ UNCHANGED <<buildVars, resultVars, fetchVars, app, from_file>>

Index_remove_filter(self, cb) ==
    /\ IF cb \in filters
       THEN /\ length' = [length EXCEPT ![self] = None]
            /\ filters' = filters \ {cb}
            /\ registered' = SelectSeq(registered, LAMBDA f : f # cb)
       ELSE UNCHANGED <<length, filters, registered>>
    /\ lastCall' = [op |-> "remove_filter", self |-> self, arg |-> cb,
                    raised |-> FALSE, was |-> filters, before |-> Observed]
    /\ UNCHANGED <<annual_indices, annual_years, bmf_indices, bmf_regions>>
    /\ UNCHANGED <<buildVars, resultVars, fetchVars, app, from_file>>

Index_remove_index(self, index) ==
    LET in_annual == ListContains(annual_indices, index)
        in_bmf == ListContains(bmf_indices, index)
    IN  /\ annual_indices' = IF in_annual
                             THEN ListRemove(annual_indices, index)
                             ELSE annual_indices
        /\ bmf_indices' = IF in_bmf
                          THEN ListRemove(bmf_indices, index)
                          ELSE bmf_indices
        /\ length' = IF in_annual \/ in_bmf
                     THEN [length EXCEPT ![self] = None]
                     ELSE length
        /\ lastCall' = [op |-> "remove_index", self |-> self,
                        arg |-> index.id,
                        was |-> [annual |-> annual_indices,
                                 bmf |-> bmf_indices],
                        before |-> Observed]
        /\ UNCHANGED <<annual_years, bmf_regions, filters, registered>>
        /\ UNCHANGED <<buildVars, resultVars, fetchVars, app, from_file>>

----------------------------------------------------------------------------
(* The index builders: annual_record.py and bmf_record.py *)

\* The columns a row must have.  The model carries the two columns of each
\* source that the join and the fetch of a filing read; the other columns of
\* the source lists are copied by the same loop.
ANNUAL_FIELD_NAMES == << "EIN", "OBJECT_ID" >>

BMF_FIELD_NAMES == << "EIN", "ZIP" >>

\* str.lower on a column name
Lower(name) ==
    CASE name = "EIN" -> "ein"
      [] name = "OBJECT_ID" -> "object_id"
      [] name = "ZIP" -> "zip"

\* from_dict: every name of the list is read from the row in order; the
\* first one the row lacks raises KeyError(name).  The values of a row are
\* Optional: the text of a cell, or None.
FromDict(field_names, d) ==
    LET missing == {i \in DOMAIN field_names : field_names[i] \notin DOMAIN d}
    IN  IF missing # {}
        THEN [raised |-> TRUE,
              error |-> field_names[CHOOSE i \in missing :
                                        \A j \in missing : i <= j]]
        ELSE [raised |-> FALSE,
              record |-> [f \in {Lower(field_names[i]) : i \in DOMAIN field_names}
                            |-> d[CHOOSE n \in DOMAIN d : Lower(n) = f]]]

AnnualRecord_from_dict(d) == FromDict(ANNUAL_FIELD_NAMES, d)

BMFRecord_from_dict(d) == FromDict(BMF_FIELD_NAMES, d)

\* A dict that keeps the value a key already has
DictSet_keep_first(d, k, v) ==
    IF DictHas(d, k) THEN d ELSE Append(d, Entry(k, v))

\* dict[key] = value: a new key goes last, a known key keeps its place
DictSet(d, k, v) ==
    IF DictHas(d, k)
    THEN [i \in DOMAIN d |-> IF d[i].key = k THEN Entry(k, v) ELSE d[i]]
    ELSE Append(d, Entry(k, v))

\* The loop of get_annual_index over the generator AnnualRecord.from_csv:
\* each row is parsed when the loop asks for it, so the records of the rows
\* before one that raises are in the index when the KeyError propagates.
RECURSIVE AnnualLoop(_, _)
AnnualLoop(rows, index) ==
    IF rows = << >>
    THEN [raised |-> FALSE, index |-> index]
    ELSE LET r == AnnualRecord_from_dict(Head(rows))
         IN  IF r.raised
             THEN [raised |-> TRUE, error |-> r.error, index |-> index]
             ELSE AnnualLoop(Tail(rows),
                             DictSet(index, r.record.ein, r.record))

\* BMFRecord.from_csv parses every row into a list before it returns it.
RECURSIVE BMFRecord_from_csv(_)
BMFRecord_from_csv(rows) ==
    IF rows = << >>
    THEN [raised |-> FALSE, records |-> << >>]
    ELSE LET r == BMFRecord_from_dict(Head(rows))
             rest == BMFRecord_from_csv(Tail(rows))
         IN  IF r.raised
             THEN [raised |-> TRUE, error |-> r.error]
             ELSE IF rest.raised
                  THEN rest
                  ELSE [raised |-> FALSE,
                        records |-> << r.record >> \o rest.records]

RECURSIVE BMFLoop(_, _)
BMFLoop(records, index) ==
    IF records = << >>
    THEN index
    ELSE BMFLoop(Tail(records),
                 DictSet(index, Head(records).ein, Head(records)))

\* AnnualRecord.from_csv run to its end, as list() runs the generator: the
\* records it yields and, on a malformed row, the KeyError that ends it.
RECURSIVE AnnualRecord_from_csv(_)
AnnualRecord_from_csv(rows) ==
    IF rows = << >>
    THEN [raised |-> FALSE, records |-> << >>]
    ELSE LET r == AnnualRecord_from_dict(Head(rows))
             rest == AnnualRecord_from_csv(Tail(rows))
         IN  IF r.raised
             THEN [raised |-> TRUE, error |-> r.error, records |-> << >>]
             ELSE [rest EXCEPT !.records = << r.record >> \o @]

\* The index documents a Downloader may hand out, as the lines csv.reader
\* splits them into: the header line and the data lines, each a list of
\* cells.  The second header lacks a required column, the last two data
\* lines are a line with one cell only and a line without cells.
AnnualHeaders == { << "EIN", "OBJECT_ID" >>, << "EIN" >> }

AnnualLines ==
    { << "111", "d1" >>, << "222", "d2" >>, << "111", "d5" >>, << "333" >>,
      << >> }

BMFHeaders == { << "EIN", "ZIP" >>, << "ZIP" >> }

BMFLines ==
    { << "111", "59801" >>, << "333", "59801" >>, << "111", "83843" >>,
      << "222" >>, << >> }

MaxRows == 2

MaxCalls == 2

SeqsUpTo(S, n) == UNION {[1..m -> S] : m \in 0..n}

IndexFiles(headers, lines) ==
    {[fieldnames |-> h, lines |-> ls] :
        h \in headers, ls \in SeqsUpTo(lines, MaxRows)}

\* One row of csv.DictReader: the cells under the field names in order, and
\* None (restval) under the field names the line has no cell for; cells
\* beyond the field names go under the key None, which from_dict never reads.
DictReaderRow(fieldnames, line) ==
    [n \in {fieldnames[i] : i \in DOMAIN fieldnames} |->
        LET i == CHOOSE j \in DOMAIN fieldnames : fieldnames[j] = n
        IN  IF i <= Len(line) THEN Some(line[i]) ELSE None]

\* for row in csv.DictReader(index_file): the rows of the data lines in
\* order, a line without cells skipped
DictReader(index_file) ==
    LET lines == SelectSeq(index_file.lines, LAMBDA l : l # << >>)
    IN  [i \in DOMAIN lines |->
            DictReaderRow(index_file.fieldnames, lines[i])]

\* What Downloader.fetch does for an index document: it raises, or it
\* returns a file.
FetchOutcomes(files) ==
    {[raised |-> TRUE, error |-> "DownloaderException"]}
        \cup {[raised |-> FALSE, file |-> f] : f \in files}

\* get_annual_index without the look-up in the register
get_annual_index_unregistered(year, fetched) ==
    LET id == Len(heap) + 1
        built == IF fetched.raised
                 THEN [raised |-> TRUE, error |-> fetched.error,
                       index |-> << >>]
                 ELSE AnnualLoop(DictReader(fetched.file), << >>)
    IN  /\ ncalls < MaxCalls
        /\ ncalls' = ncalls + 1
        /\ annual_registry' = [annual_registry EXCEPT ![year] = Some(id)]
        /\ heap' = Append(heap, built.index)
        /\ fetches' = [fetches EXCEPT !.annual[year] = @ + 1]
        /\ returned' = IF built.raised
                       THEN returned
                       ELSE [returned EXCEPT !.annual[year] = Append(@, id)]
        /\ lastCall' = IF built.raised
                       THEN [op |-> "get_annual_index", key |-> year,
                             raised |-> TRUE, error |-> built.error]
                       ELSE [op |-> "get_annual_index", key |-> year,
                             raised |-> FALSE, ret |-> id,
                             file |-> fetched.file]
        /\ UNCHANGED bmf_registry
        /\ UNCHANGED <<indexVars, resultVars, fetchVars, app, from_file>>

get_annual_index(year, fetched) ==
    /\ ncalls < MaxCalls
    /\ ncalls' = ncalls + 1
    /\ IF annual_registry[year] # None
       THEN /\ returned' = [returned EXCEPT
                              !.annual[year] = Append(@, annual_registry[year][1])]
            /\ lastCall' = [op |-> "get_annual_index", key |-> year,
                            raised |-> FALSE, ret |-> annual_registry[year][1]]
            /\ UNCHANGED <<annual_registry, heap, fetches>>
       ELSE LET id == Len(heap) + 1
                built == IF fetched.raised
                         THEN [raised |-> TRUE, error |-> fetched.error,
                               index |-> << >>]
                         ELSE AnnualLoop(DictReader(fetched.file), << >>)
            IN  /\ annual_registry' = [annual_registry EXCEPT ![year] = Some(id)]
                /\ heap' = Append(heap, built.index)
                /\ fetches' = [fetches EXCEPT !.annual[year] = @ + 1]
                /\ returned' = IF built.raised
                               THEN returned
                               ELSE [returned EXCEPT
                                       !.annual[year] = Append(@, id)]
                /\ lastCall' = IF built.raised
                               THEN [op |-> "get_annual_index", key |-> year,
                                     raised |-> TRUE, error |-> built.error]
                               ELSE [op |-> "get_annual_index", key |-> year,
                                     raised |-> FALSE, ret |-> id,
                                     file |-> fetched.file]
    /\ UNCHANGED bmf_registry
    /\ UNCHANGED <<indexVars, resultVars, fetchVars, app, from_file>>

get_bmf_index(region, fetched) ==
    /\ ncalls < MaxCalls
    /\ ncalls' = ncalls + 1
    /\ IF bmf_registry[region] # None
       THEN /\ returned' = [returned EXCEPT
                              !.bmf[region] = Append(@, bmf_registry[region][1])]
            /\ lastCall' = [op |-> "get_bmf_index", key |-> region,
                            raised |-> FALSE, ret |-> bmf_registry[region][1]]
            /\ UNCHANGED <<bmf_registry, heap, fetches>>
       ELSE LET id == Len(heap) + 1
                parsed == IF fetched.raised
                          THEN [raised |-> TRUE, error |-> fetched.error]
                          ELSE BMFRecord_from_csv(DictReader(fetched.file))
                index == IF parsed.raised
                         THEN << >>
                         ELSE BMFLoop(parsed.records, << >>)
            IN  /\ bmf_registry' = [bmf_registry EXCEPT ![region] = Some(id)]
                /\ heap' = Append(heap, index)
                /\ fetches' = [fetches EXCEPT !.bmf[region] = @ + 1]
                /\ returned' = IF parsed.raised
                               THEN returned
                               ELSE [returned EXCEPT
                                       !.bmf[region] = Append(@, id)]
                /\ lastCall' = IF parsed.raised
                               THEN [op |-> "get_bmf_index", key |-> region,
                                     raised |-> TRUE, error |-> parsed.error]
                               ELSE [op |-> "get_bmf_index", key |-> region,
                                     raised |-> FALSE, ret |-> id,
                                     file |-> fetched.file]
    /\ UNCHANGED annual_registry
    /\ UNCHANGED <<indexVars, resultVars, fetchVars, app, from_file>>

InitBuild ==
    /\ annual_registry = [y \in AnnualYears |-> None]
    /\ bmf_registry = [r \in BMFRegions |-> None]
    /\ heap = << >>
    /\ fetches = [annual |-> [y \in AnnualYears |-> 0],
                  bmf |-> [r \in BMFRegions |-> 0]]
    /\ returned = [annual |-> [y \in AnnualYears |-> << >>],
                   bmf |-> [r \in BMFRegions |-> << >>]]
    /\ ncalls = 0

\* A call for a registered key does not reach the Downloader, so what the
\* Downloader would do is enumerated only for the keys not yet registered.
Unfetched == {[raised |-> TRUE, error |-> "not fetched"]}

NextBuild ==
    \/ \E y \in AnnualYears :
           \E fetched \in IF annual_registry[y] # None
                          THEN Unfetched
                          ELSE FetchOutcomes(IndexFiles(AnnualHeaders,
                                                        AnnualLines)) :
               get_annual_index(y, fetched)
    \/ \E r \in BMFRegions :
           \E fetched \in IF bmf_registry[r] # None
                          THEN Unfetched
                          ELSE FetchOutcomes(IndexFiles(BMFHeaders, BMFLines)) :
               get_bmf_index(r, fetched)

\* list(AnnualRecord.from_csv(index_file)), BMFRecord.from_csv(index_file)
Call_AnnualRecord_from_csv(index_file) ==
    /\ lastCall' = [op |-> "AnnualRecord.from_csv", file |-> index_file,
                    field_names |-> ANNUAL_FIELD_NAMES,
                    result |-> AnnualRecord_from_csv(DictReader(index_file))]
    /\ UNCHANGED <<indexVars, buildVars, resultVars, fetchVars, app, from_file>>

Call_BMFRecord_from_csv(index_file) ==
    /\ lastCall' = [op |-> "BMFRecord.from_csv", file |-> index_file,
                    field_names |-> BMF_FIELD_NAMES,
                    result |-> BMFRecord_from_csv(DictReader(index_file))]
    /\ UNCHANGED <<indexVars, buildVars, resultVars, fetchVars, app, from_file>>

NextParse ==
    \/ \E index_file \in IndexFiles(AnnualHeaders, AnnualLines) :
           Call_AnnualRecord_from_csv(index_file)
    \/ \E index_file \in IndexFiles(BMFHeaders, BMFLines) :
           Call_BMFRecord_from_csv(index_file)

----------------------------------------------------------------------------
(* The caches and the HTTPDownloader: cache.py and downloader.py *)

\* The characters of a text: a carriage return, a line feed, any other one
Chars == {"\r", "\n", "x"}

MaxText == 1

Texts == SeqsUpTo(Chars, MaxText)

\* The document keys fetched (test_downloader.py)
DocumentKeys == {"201541349349307794", "nonsense"}

\* The status codes requests.get answers with
StatusCodes == {199, 200, 299, 300, 404}

MaxFetches == 2

MemoryCache_init == [kind |-> "MemoryCache"]

\* The extensions DirectoryCache objects are constructed with
Extensions == {"xml", ".xml", ".csv", ".bak.xml"}

\* extension.startswith(".")
StartsWithDot(extension) ==
    \E rest \in {"xml", "csv", "bak.xml"} : extension = "." \o rest

\* DirectoryCache.__init__: the extension gets its leading dot
DirectoryCache_init(extension, path) ==
    [kind |-> "DirectoryCache",
     extension |-> IF StartsWithDot(extension)
                   THEN extension
                   ELSE "." \o extension,
     path |-> path]

\* The file named by the key alone, without the extension
CachePath_key_only(self, cache_key) == cache_key

\* The file a DirectoryCache keeps a key in: f"{cache_key}{self._extension}"
\* under its directory
CachePath(self, cache_key) == cache_key \o self.extension

\* open(path, "w").write(content) in text mode: every "\n" is written as
\* os.linesep, which is "\n" where the program is run
LineSep == << "\n" >>

RECURSIVE FileWrite(_)
FileWrite(content) ==
    IF content = << >>
    THEN << >>
    ELSE (IF Head(content) = "\n" THEN LineSep ELSE << Head(content) >>)
             \o FileWrite(Tail(content))

\* open(path).read() in text mode with universal newlines: "\r\n" and "\r"
\* are read as "\n"
RECURSIVE FileRead(_)
FileRead(chars) ==
    IF chars = << >>
    THEN << >>
    ELSE IF Head(chars) = "\r"
         THEN IF Len(chars) >= 2 /\ chars[2] = "\n"
              THEN << "\n" >> \o FileRead(SubSeq(chars, 3, Len(chars)))
              ELSE << "\n" >> \o FileRead(Tail(chars))
         ELSE << Head(chars) >> \o FileRead(Tail(chars))

MemoryCache_get(dict, cache_key) ==
    IF DictHas(dict, cache_key) THEN Some(DictGet(dict, cache_key)) ELSE None

DirectoryCache_get(self, files, cache_key) ==
    LET path == CachePath(self, cache_key)
    IN  IF files[path] # None THEN Some(FileRead(files[path][1])) ELSE None

\* Cache.get on the cache object the downloader holds
Cache_get(self, cache_key) ==
    IF self.kind = "MemoryCache"
    THEN MemoryCache_get(cache_dict, cache_key)
    ELSE DirectoryCache_get(self, cache_files, cache_key)

\* What the cache keeps for a key, as it was stored
Stored(self, cache_key) ==
    IF self.kind = "MemoryCache"
    THEN MemoryCache_get(cache_dict, cache_key)
    ELSE cache_files[CachePath(self, cache_key)]

\* Cache.put: the new MemoryCache._dict and directory; put returns content
MemoryCache_put(dict, cache_key, content) == DictSet(dict, cache_key, content)

DirectoryCache_put(self, files, cache_key, content) ==
    [files EXCEPT ![CachePath(self, cache_key)] = Some(FileWrite(content))]

\* A status code outside 200..299
Unsuccessful(status_code) == status_code < 200 \/ status_code > 299

\* requests.get answered for this key: one more answer counted
Counted(counts, document, response) ==
    IF Unsuccessful(response.status_code)
    THEN [counts EXCEPT ![document].failed = @ + 1]
    ELSE [counts EXCEPT ![document].ok = @ + 1]

\* fetch that stores the response before it looks at the status
HTTPDownloader_fetch_stores_first(document, response) ==
    LET self == cache[1]
        content == Cache_get(self, document)
        failed == Unsuccessful(response.status_code)
    IN  /\ nfetch < MaxFetches
        /\ nfetch' = nfetch + 1
        /\ IF content = None
           THEN /\ requests' = Counted(requests, document, response)
                /\ cache_dict' = IF self.kind = "MemoryCache"
                                 THEN MemoryCache_put(cache_dict, document,
                                                      response.text)
                                 ELSE cache_dict
                /\ cache_files' = IF self.kind = "DirectoryCache"
                                  THEN DirectoryCache_put(self, cache_files,
                                                          document, response.text)
                                  ELSE cache_files
                /\ writes' = [writes EXCEPT ![document] = @ + 1]
                /\ served' = IF failed THEN served
                             ELSE [served EXCEPT ![document] = @ + 1]
                /\ lastCall' =
                       IF failed
                       THEN [op |-> "fetch", key |-> document,
                             before |-> Stored(self, document),
                             requested |-> TRUE, status |-> response.status_code,
                             response |-> response.text,
                             raised |-> TRUE, error |-> response.text]
                       ELSE [op |-> "fetch", key |-> document,
                             before |-> Stored(self, document),
                             requested |-> TRUE, status |-> response.status_code,
                             response |-> response.text,
                             raised |-> FALSE, ret |-> response.text]
           ELSE /\ served' = [served EXCEPT ![document] = @ + 1]
                /\ lastCall' = [op |-> "fetch", key |-> document,
                                before |-> Stored(self, document),
                                requested |-> FALSE,
                                raised |-> FALSE, ret |-> content[1]]
                /\ UNCHANGED <<cache_dict, cache_files, requests, writes>>
        /\ UNCHANGED <<cache, puts>>
        /\ UNCHANGED <<indexVars, buildVars, resultVars, app, from_file>>

\* fetch that returns what it downloaded without caching it
HTTPDownloader_fetch_no_put(document, response) ==
    LET self == cache[1]
        content == Cache_get(self, document)
        failed == Unsuccessful(response.status_code)
    IN  /\ nfetch < MaxFetches
        /\ nfetch' = nfetch + 1
        /\ IF content = None
           THEN /\ requests' = Counted(requests, document, response)
                /\ served' = IF failed THEN served
                             ELSE [served EXCEPT ![document] = @ + 1]
                /\ lastCall' =
                       IF failed
                       THEN [op |-> "fetch", key |-> document,
                             before |-> Stored(self, document),
                             requested |-> TRUE, status |-> response.status_code,
                             response |-> response.text,
                             raised |-> TRUE, error |-> response.text]
                       ELSE [op |-> "fetch", key |-> document,
                             before |-> Stored(self, document),
                             requested |-> TRUE, status |-> response.status_code,
                             response |-> response.text,
                             raised |-> FALSE, ret |-> response.text]
                /\ UNCHANGED <<cache_dict, cache_files, writes>>
           ELSE /\ served' = [served EXCEPT ![document] = @ + 1]
                /\ lastCall' = [op |-> "fetch", key |-> document,
                                before |-> Stored(self, document),
                                requested |-> FALSE,
                                raised |-> FALSE, ret |-> content[1]]
                /\ UNCHANGED <<cache_dict, cache_files, requests, writes>>
        /\ UNCHANGED <<cache, puts>>
        /\ UNCHANGED <<indexVars, buildVars, resultVars, app, from_file>>

\* HTTPDownloader.fetch; response is what requests.get answers on a miss,
\* its text decoded with the apparent encoding
HTTPDownloader_fetch(document, response) ==
    LET self == cache[1]
        content == Cache_get(self, document)
    IN  /\ nfetch < MaxFetches
        /\ nfetch' = nfetch + 1
        /\ IF content = None
           THEN /\ requests' = Counted(requests, document, response)
                /\ IF response.status_code < 200 \/ response.status_code > 299
                   THEN /\ lastCall' = [op |-> "fetch", key |-> document,
                                        before |-> Stored(self, document),
                                        requested |-> TRUE,
                                        status |-> response.status_code,
                                        response |-> response.text,
                                        raised |-> TRUE,
                                        error |-> response.text]
                        /\ UNCHANGED <<cache_dict, cache_files, writes, served>>
                   ELSE /\ cache_dict' =
                               IF self.kind = "MemoryCache"
                               THEN MemoryCache_put(cache_dict, document,
                                                    response.text)
                               ELSE cache_dict
                        /\ cache_files' =
                               IF self.kind = "DirectoryCache"
                               THEN DirectoryCache_put(self, cache_files,
                                                       document, response.text)
                               ELSE cache_files
                        /\ writes' = [writes EXCEPT ![document] = @ + 1]
                        /\ served' = [served EXCEPT ![document] = @ + 1]
                        /\ lastCall' = [op |-> "fetch", key |-> document,
                                        before |-> Stored(self, document),
                                        requested |-> TRUE,
                                        status |-> response.status_code,
                                        response |-> response.text,
                                        raised |-> FALSE,
                                        ret |-> response.text]
           ELSE /\ served' = [served EXCEPT ![document] = @ + 1]
                /\ lastCall' = [op |-> "fetch", key |-> document,
                                before |-> Stored(self, document),
                                requested |-> FALSE,
                                raised |-> FALSE, ret |-> content[1]]
                /\ UNCHANGED <<cache_dict, cache_files, requests, writes>>
        /\ UNCHANGED <<cache, puts>>
        /\ UNCHANGED <<indexVars, buildVars, resultVars, app, from_file>>

Responses == [status_code : StatusCodes, text : Texts]

\* A hit does not reach requests.get, so its answers are enumerated only
\* for the keys the cache misses.
Unrequested == {[status_code |-> 404, text |-> << >>]}

NextFetch ==
    \E document \in DocumentKeys :
        \E response \in IF Cache_get(cache[1], document) # None
                        THEN Unrequested
                        ELSE Responses :
            HTTPDownloader_fetch(document, response)

----------------------------------------------------------------------------
(* The caches called directly *)

MaxPuts == 2

\* The cache objects of a process: one MemoryCache and DirectoryCache objects
\* that share one directory.
CacheObjects ==
    {MemoryCache_init}
        \cup {DirectoryCache_init(e, ".pyrs990-cache") : e \in Extensions}

CacheKeys == {"mt", "mt.bak"}

\* The contents put: the empty text, a text without line ends, and a text
\* with a line end as HTTP bodies carry it.
Contents == { << >>, << "x" >>, << "x", "\r", "\n" >> }

\* The files the DirectoryCache objects may keep in their directory
CacheFiles ==
    {CachePath(c, k) : c \in {o \in CacheObjects : o.kind = "DirectoryCache"},
                       k \in CacheKeys}

\* MemoryCache.__contains__
MemoryCache_contains(dict, x) == Some(DictHas(dict, x))

\* DirectoryCache.__contains__: its body is pass, it returns None
DirectoryCache_contains(self, files, x) == None

Cache_contains(self, x) ==
    IF self.kind = "MemoryCache"
    THEN MemoryCache_contains(cache_dict, x)
    ELSE DirectoryCache_contains(self, cache_files, x)

\* What get returns for every key on every cache object
GetAll == [c \in CacheObjects |-> [k \in CacheKeys |-> Cache_get(c, k)]]

\* cache.put(cache_key, content)
Call_put(self, cache_key, content) ==
    /\ Len(puts) < MaxPuts
    /\ puts' = Append(puts, [self |-> self, key |-> cache_key,
                             content |-> content])
    /\ cache_dict' = IF self.kind = "MemoryCache"
                     THEN MemoryCache_put(cache_dict, cache_key, content)
                     ELSE cache_dict
    /\ cache_files' = IF self.kind = "DirectoryCache"
                      THEN DirectoryCache_put(self, cache_files, cache_key,
                                              content)
                      ELSE cache_files
    /\ lastCall' = [op |-> "put", self |-> self, key |-> cache_key,
                    content |-> content, ret |-> content, before |-> GetAll]
    /\ UNCHANGED <<cache, requests, writes, served, nfetch>>
    /\ UNCHANGED <<indexVars, buildVars, resultVars, app, from_file>>

\* cache.get(cache_key)
Call_get(self, cache_key) ==
    /\ lastCall' = [op |-> "get", self |-> self, key |-> cache_key,
                    ret |-> Cache_get(self, cache_key)]
    /\ UNCHANGED fetchVars
    /\ UNCHANGED <<indexVars, buildVars, resultVars, app, from_file>>

\* cache.__contains__(x); `x in cache` is the truth value of what it returns
Call_contains(self, x) ==
    LET ret == Cache_contains(self, x)
    IN  /\ lastCall' = [op |-> "contains", self |-> self, key |-> x,
                        ret |-> ret,
                        truth |-> (ret # None /\ ret[1])]
        /\ UNCHANGED fetchVars
        /\ UNCHANGED <<indexVars, buildVars, resultVars, app, from_file>>

NextCache ==
    \E self \in CacheObjects, cache_key \in CacheKeys :
        \/ \E content \in Contents : Call_put(self, cache_key, content)
        \/ Call_get(self, cache_key)
        \/ Call_contains(self, cache_key)

----------------------------------------------------------------------------
(* Filing documents, Querier, Filing *)

\* The filing documents behind the object ids of the annual records, as the
\* text a Downloader hands out: characters, the first "<" standing for the
\* whole XML document with the tree the parser builds from it (XPath ->
\* element text).  d1 and d3 start with characters before the "<", d2 has
\* neither FormationYr nor WebsiteAddressTxt, and the FormationYr of d4 is
\* not a number.
Junk == [char |-> "~"]

Xml(tree) == [char |-> "<", tree |-> tree]

Documents ==
    [ d1 |-> << Junk, Xml(("/IRS990/FormationYr" :> "2008") @@
                          ("/IRS990/WebsiteAddressTxt" :> "www.a.org")) >>,
      d2 |-> << Xml("/ReturnHeader/TaxYr" :> "2018") >>,
      d3 |-> << Junk, Junk,
                Xml(("/IRS990/FormationYr" :> "2004") @@
                    ("/IRS990/WebsiteAddressTxt" :> "www.c.org")) >>,
      d4 |-> << Xml(("/IRS990/FormationYr" :> "n/a") @@
                    ("/IRS990/WebsiteAddressTxt" :> "www.d.org")) >> ]

\* Downloader.fetch as the HTTPDownloader answers it for a document it can
\* serve: a new file object on the document's text
Downloader_fetch(document) == Documents[document]

\* The loop of Querier.from_file that drops characters until the text starts
\* with "<", as a function of the text.  It is applied to the documents
\* above only, each of which holds a "<"; on a text without one the loop of
\* the code does not end, which FromFile_while below models step by step.
RECURSIVE StripToBracket(_)
StripToBracket(content) ==
    IF content = << >> \/ content[1].char = "<"
    THEN content
    ELSE StripToBracket(Tail(content))

Querier_from_file(xml_file) == StripToBracket(xml_file)[1].tree

\* Querier.from_file step by step, on any text: characters that are not
\* "<", an XML document the parser builds a tree from, and an XML document
\* the parser rejects (each document standing at its first "<")
MaxContent == 3

Malformed == [char |-> "<", error |-> "ParseError"]

ContentChars ==
    {Junk, Xml("/IRS990/FormationYr" :> "2004"), Malformed}

Contents_of_files == SeqsUpTo(ContentChars, MaxContent)

InitFromFile == from_file = [pc |-> "idle", content |-> << >>]

\* content = xml_file.read()
FromFile_read(text) ==
    /\ from_file.pc \in {"idle", "returned", "raised"}
    /\ from_file' = [pc |-> "while", content |-> text]
    /\ lastCall' = [op |-> "Querier.from_file", text |-> text]
    /\ UNCHANGED <<indexVars, buildVars, resultVars, fetchVars, app>>

\* One test of `while not content.startswith("<")` and, when it holds, one
\* pass of the body content = content[1:], which leaves an empty text empty
FromFile_while ==
    /\ from_file.pc = "while"
    /\ from_file' =
           IF from_file.content # << >> /\ from_file.content[1].char = "<"
           THEN [from_file EXCEPT !.pc = "fromstring"]
           ELSE [from_file EXCEPT
                    !.content = IF @ = << >> THEN << >> ELSE Tail(@)]
    /\ UNCHANGED lastCall
    /\ UNCHANGED <<indexVars, buildVars, resultVars, fetchVars, app>>

\* tree = ElementTree.fromstring(byte_content); return Querier(tree)
FromFile_fromstring ==
    /\ from_file.pc = "fromstring"
    /\ from_file' = [from_file EXCEPT
                        !.pc = IF from_file.content[1] = Malformed
                               THEN "raised"
                               ELSE "returned"]
    /\ UNCHANGED lastCall
    /\ UNCHANGED <<indexVars, buildVars, resultVars, fetchVars, app>>

NextFromFile ==
    \/ \E text \in Contents_of_files : FromFile_read(text)
    \/ FromFile_while
    \/ FromFile_fromstring

\* find_str: None when no element is at the path, else element.text, which
\* is None for an element without text (written "" in the tree)
Querier_find_str(querier, path) ==
    IF path \in DOMAIN querier /\ querier[path] # ""
    THEN Some(querier[path])
    ELSE None

\* The texts int() converts, with their values; on any other text it raises
\* ValueError.
IntOf == ("2004" :> 2004) @@ ("2008" :> 2008)

\* find_int that converts whatever find_str returned
Querier_find_int_unchecked(querier, path) ==
    LET raw_value == Querier_find_str(querier, path)
    IN  IF raw_value # None /\ raw_value[1] \in DOMAIN IntOf
        THEN [raised |-> FALSE, value |-> Some(IntOf[raw_value[1]])]
        ELSE [raised |-> TRUE,
              error |-> IF raw_value = None THEN "TypeError"
                                            ELSE "ValueError"]

Querier_find_int(querier, path) ==
    LET raw_value == Querier_find_str(querier, path)
    IN  IF raw_value = None
        THEN [raised |-> FALSE, value |-> None]
        ELSE IF raw_value[1] \in DOMAIN IntOf
             THEN [raised |-> FALSE, value |-> Some(IntOf[raw_value[1]])]
             ELSE [raised |-> TRUE, error |-> "ValueError"]

\* float(raw_value): the texts float() converts are those int() converts,
\* among the texts here; the float n.0 is written [float |-> n]
Querier_find_float(querier, path) ==
    LET raw_value == Querier_find_str(querier, path)
    IN  IF raw_value = None
        THEN [raised |-> FALSE, value |-> None]
        ELSE IF raw_value[1] \in DOMAIN IntOf
             THEN [raised |-> FALSE,
                   value |-> Some([float |-> IntOf[raw_value[1]]])]
             ELSE [raised |-> TRUE, error |-> "ValueError"]

\* The factory of two_part_str_factory: the parts found, joined by sep, and
\* None when the result is the empty text
two_part_str_factory(querier, path1, path2, sep) ==
    LET line1 == Querier_find_str(querier, path1)
        line2 == Querier_find_str(querier, path2)
    IN  IF line1 # None /\ line2 # None
        THEN IF line1[1] \o sep \o line2[1] = ""
             THEN None
             ELSE Some(line1[1] \o sep \o line2[1])
        ELSE IF line1 # None
             THEN IF line1[1] = "" THEN None ELSE line1
             ELSE IF line2 # None
                  THEN IF line2[1] = "" THEN None ELSE line2
                  ELSE None

\* Filing.__init__ that leaves a field None when its conversion fails
Filing_init_defaulting(querier) ==
    LET formation_year == Querier_find_int(querier, "/IRS990/FormationYr")
        us_address ==
            two_part_str_factory(querier,
                                 "/IRS990/USAddress/AddressLine1Txt",
                                 "/IRS990/USAddress/AddressLine2Txt", "\n")
        website_address ==
            Querier_find_str(querier, "/IRS990/WebsiteAddressTxt")
    IN  [raised |-> FALSE,
         filing |-> [formation_year |-> IF formation_year.raised
                                        THEN None
                                        ELSE formation_year.value,
                     us_address |-> us_address,
                     website_address |-> website_address]]

\* Filing.__init__, for the fields formation_year (an int), website_address
\* (a str) and us_address (a two-part str); the other declared fields are
\* filled the same way from their own paths.
Filing_init(querier) ==
    LET formation_year == Querier_find_int(querier, "/IRS990/FormationYr")
        us_address ==
            two_part_str_factory(querier,
                                 "/IRS990/USAddress/AddressLine1Txt",
                                 "/IRS990/USAddress/AddressLine2Txt", "\n")
        website_address ==
            Querier_find_str(querier, "/IRS990/WebsiteAddressTxt")
    IN  IF formation_year.raised
        THEN [raised |-> TRUE, error |-> formation_year.error]
        ELSE [raised |-> FALSE,
              filing |-> [formation_year |-> formation_year.value,
                          us_address |-> us_address,
                          website_address |-> website_address]]

\* The XML trees Queriers are made of: each path absent or with a text
QuerierPaths ==
    {"/IRS990/FormationYr", "/IRS990/WebsiteAddressTxt",
     "/IRS990/USAddress/AddressLine1Txt", "/IRS990/USAddress/AddressLine2Txt"}

ElementTexts(path) ==
    CASE path = "/IRS990/FormationYr" -> {"2004", "2008", "n/a", ""}
      [] path = "/IRS990/WebsiteAddressTxt" -> {"www.a.org"}
      [] path = "/IRS990/USAddress/AddressLine1Txt" -> {"1 Main St"}
      [] path = "/IRS990/USAddress/AddressLine2Txt" -> {"Suite 2"}

Trees ==
    UNION {{t \in [paths -> UNION {ElementTexts(p) : p \in paths}] :
               \A p \in paths : t[p] \in ElementTexts(p)} :
           paths \in SUBSET QuerierPaths}

\* Filing(querier)
Call_Filing(querier) ==
    /\ lastCall' = [op |-> "Filing", querier |-> querier,
                    result |-> Filing_init(querier)]
    /\ UNCHANGED <<indexVars, buildVars, resultVars, fetchVars, app, from_file>>

\* querier.find_str(path), querier.find_int(path), querier.find_float(path)
Call_find_str(querier, path) ==
    /\ lastCall' = [op |-> "find_str", querier |-> querier, path |-> path,
                    result |-> [raised |-> FALSE,
                                value |-> Querier_find_str(querier, path)]]
    /\ UNCHANGED <<indexVars, buildVars, resultVars, fetchVars, app, from_file>>

Call_find_int(querier, path) ==
    /\ lastCall' = [op |-> "find_int", querier |-> querier, path |-> path,
                    result |-> Querier_find_int(querier, path)]
    /\ UNCHANGED <<indexVars, buildVars, resultVars, fetchVars, app, from_file>>

Call_find_float(querier, path) ==
    /\ lastCall' = [op |-> "find_float", querier |-> querier, path |-> path,
                    result |-> Querier_find_float(querier, path)]
    /\ UNCHANGED <<indexVars, buildVars, resultVars, fetchVars, app, from_file>>

NextFiling ==
    \E querier \in Trees :
        \/ Call_Filing(querier)
        \/ \E path \in QuerierPaths :
               \/ Call_find_str(querier, path)
               \/ Call_find_int(querier, path)
               \/ Call_find_float(querier, path)

\* FilingFilter callbacks, as filter_filings builds them from a mapping of
\* field name to pattern; each is named by its mapping.
FilingFilters == {"formation_year=200[0-5]", "website_address=org"}

\* The callback of filter_filings called: False on a field that is None,
\* else whether the pattern is found in str(value).
FilingFilterCall(cb, filing) ==
    IF cb = "formation_year=200[0-5]"
    THEN /\ filing.formation_year # None
         /\ filing.formation_year[1] \in 2000..2005
    ELSE /\ filing.website_address # None
         /\ filing.website_address[1] \in {"www.a.org", "www.c.org"}

----------------------------------------------------------------------------
(* Result *)

MaxResults == 3

\* The inner loop of Result.__iter__: the callbacks it calls for one filing,
\* in order, up to and including the first that fails.
RECURSIVE Called(_, _)
Called(fs, filing) ==
    IF fs = << >>
    THEN << >>
    ELSE IF ~FilingFilterCall(Head(fs), filing)
         THEN << Head(fs) >>
         ELSE << Head(fs) >> \o Called(Tail(fs), filing)

\* The body of the loop of Result.__iter__ for one record
Result_body(fs, record) ==
    LET document == record.annual_record.object_id
        xml_file == Downloader_fetch(document)
        querier == Querier_from_file(xml_file)
        made == Filing_init(querier)
    IN  IF made.raised
        THEN [raised |-> TRUE, error |-> made.error, document |-> document,
              filing |-> None, called |-> << >>]
        ELSE LET called == Called(fs, made.filing)
             IN  [raised |-> FALSE, document |-> document,
                  filing |-> Some(made.filing), called |-> called,
                  passed |-> \A i \in DOMAIN called :
                                 FilingFilterCall(called[i], made.filing)]

\* What one pass of the loop adds to the log of the iteration
Fetched(k, body) ==
    [pos |-> k, document |-> body.document, filing |-> body.filing,
     called |-> body.called]

\* The generator of Result.__iter__ resumed after it consumed k records of
\* the Index: it runs the loop until it yields, ends or raises.
RECURSIVE Advance(_, _, _, _)
Advance(fs, records, k, log) ==
    IF k >= Len(records)
    THEN [outcome |-> "StopIteration", pos |-> k, log |-> log]
    ELSE LET body == Result_body(fs, records[k + 1])
             log1 == Append(log, Fetched(k + 1, body))
         IN  IF body.raised
             THEN [outcome |-> body.error, pos |-> k + 1, log |-> log1]
             ELSE IF body.passed
                  THEN [outcome |-> "yield", pos |-> k + 1, log |-> log1,
                        filing |-> body.filing[1]]
                  ELSE Advance(fs, records, k + 1, log1)

\* The generator pulled until it ends or raises
RECURSIVE Drain(_, _, _, _, _)
Drain(fs, records, k, log, out) ==
    LET step == Advance(fs, records, k, log)
    IN  IF step.outcome = "yield"
        THEN Drain(fs, records, step.pos, step.log, Append(out, step.filing))
        ELSE [yielded |-> out, log |-> step.log, outcome |-> step.outcome]

\* list(result): a full iteration of the Result
Result_list(self) == Drain(results[self].filters, IndexIter, 0, << >>, << >>)

\* What every Result constructed so far holds and yields
ResultsObserved ==
    [i \in DOMAIN results |->
        [filters |-> results[i].filters, yielded |-> Result_list(i).yielded]]

\* Result(downloader, index), as app.run constructs it
Result_init(index) ==
    /\ results = << >>
    /\ results' = << [filters |-> << >>, index |-> index] >>
    /\ lastCall' = [op |-> "Result", ret |-> 1]
    /\ UNCHANGED <<gen, fetch_log, pulled>>
    /\ UNCHANGED <<indexVars, buildVars, fetchVars, app, from_file>>

\* add_filter that appends to the list of the Result it is called on
Result_add_filter_in_place(self, cb) ==
    /\ Len(results) < MaxResults
    /\ results' = Append([results EXCEPT
                              ![self].filters = Append(@, cb)],
                         [filters |-> Append(results[self].filters, cb),
                          index |-> results[self].index])
    /\ lastCall' = [op |-> "Result.add_filter", self |-> self, cb |-> cb,
                    ret |-> Len(results) + 1, before |-> ResultsObserved]
    /\ UNCHANGED <<gen, fetch_log, pulled>>
    /\ UNCHANGED <<indexVars, buildVars, fetchVars, app, from_file>>

\* add_filter that gives the new Result the new callback only
Result_add_filter_only_new(self, cb) ==
    /\ Len(results) < MaxResults
    /\ results' = Append(results, [filters |-> << cb >>,
                                   index |-> results[self].index])
    /\ lastCall' = [op |-> "Result.add_filter", self |-> self, cb |-> cb,
                    ret |-> Len(results) + 1, before |-> ResultsObserved]
    /\ UNCHANGED <<gen, fetch_log, pulled>>
    /\ UNCHANGED <<indexVars, buildVars, fetchVars, app, from_file>>

Result_add_filter(self, cb) ==
    /\ Len(results) < MaxResults
    /\ results' = Append(results,
                         [filters |-> results[self].filters \o << cb >>,
                          index |-> results[self].index])
    /\ lastCall' = [op |-> "Result.add_filter", self |-> self, cb |-> cb,
                    ret |-> Len(results) + 1, before |-> ResultsObserved]
    /\ UNCHANGED <<gen, fetch_log, pulled>>
    /\ UNCHANGED <<indexVars, buildVars, fetchVars, app, from_file>>

\* download_count that counts the Filings a full iteration yields
Result_download_count_filings(self) ==
    LET ret == Len(Result_list(self).yielded)
    IN  /\ length' = [length EXCEPT ![results[self].index] = Some(ret)]
        /\ lastCall' = [op |-> "Result.download_count", self |-> self,
                        ret |-> ret]
        /\ UNCHANGED <<annual_indices, annual_years, bmf_indices,
                       bmf_regions, filters, registered>>
        /\ UNCHANGED <<buildVars, resultVars, fetchVars, app, from_file>>

\* Result.download_count: len(self._index), which memoizes the length
Result_download_count(self) ==
    LET ret == LengthReturns(results[self].index)
    IN  /\ length' = [length EXCEPT ![results[self].index] = Some(ret)]
        /\ lastCall' = [op |-> "Result.download_count", self |-> self,
                        ret |-> ret]
        /\ UNCHANGED <<annual_indices, annual_years, bmf_indices,
                       bmf_regions, filters, registered>>
        /\ UNCHANGED <<buildVars, resultVars, fetchVars, app, from_file>>

\* iter(result): the generator is created and none of its code has run
Result_iter(self) ==
    /\ gen' = Some([self |-> self, pos |-> 0, done |-> FALSE])
    /\ fetch_log' = << >>
    /\ pulled' = << >>
    /\ lastCall' = [op |-> "Result.iter", self |-> self]
    /\ UNCHANGED results
    /\ UNCHANGED <<indexVars, buildVars, fetchVars, app, from_file>>

\* next() that has the document of the record after the yielded one fetched
\* before it yields
Result_next_prefetching ==
    /\ gen # None
    /\ ~gen[1].done
    /\ LET g == gen[1]
           fs == results[g.self].filters
           records == IndexIter
           step == Advance(fs, records, g.pos, fetch_log)
       IN  /\ gen' = Some([g EXCEPT !.pos = step.pos,
                                    !.done = step.outcome # "yield"])
           /\ fetch_log' =
                  IF step.outcome = "yield" /\ step.pos < Len(records)
                  THEN Append(step.log,
                              Fetched(step.pos + 1,
                                      Result_body(fs, records[step.pos + 1])))
                  ELSE step.log
           /\ pulled' = IF step.outcome = "yield"
                        THEN Append(pulled, [filing |-> step.filing,
                                             pos |-> step.pos])
                        ELSE pulled
           /\ lastCall' = [op |-> "Result.next", self |-> g.self,
                           outcome |-> step.outcome]
    /\ UNCHANGED results
    /\ UNCHANGED <<indexVars, buildVars, fetchVars, app, from_file>>

\* next() on the generator of Result.__iter__: the consumer pulls once
Result_next ==
    /\ gen # None
    /\ ~gen[1].done
    /\ LET g == gen[1]
           step == Advance(results[g.self].filters, IndexIter, g.pos,
                           fetch_log)
       IN  /\ gen' = Some([g EXCEPT !.pos = step.pos,
                                    !.done = step.outcome # "yield"])
           /\ fetch_log' = step.log
           /\ pulled' = IF step.outcome = "yield"
                        THEN Append(pulled, [filing |-> step.filing,
                                             pos |-> step.pos])
                        ELSE pulled
           /\ lastCall' = [op |-> "Result.next", self |-> g.self,
                           outcome |-> step.outcome]
    /\ UNCHANGED results
    /\ UNCHANGED <<indexVars, buildVars, fetchVars, app, from_file>>

\* The Index is set up before the Result is constructed, as app.run does:
\* each year and region with the index object built for it.
AnnualIndexOf(year) ==
    CHOOSE a \in AnnualIndexObjects :
        a.id = (IF year = 2018 THEN "a1" ELSE "a2")

BMFIndexOf(region) ==
    CHOOSE b \in BMFIndexObjects :
        b.id = (IF region = "mt" THEN "b2" ELSE "b1")

NextResult ==
    \/ /\ results = << >>
       /\ \E self \in AppInstances :
             \/ \E y \in AnnualYears :
                    Index_add_annual_index(self, y, AnnualIndexOf(y))
             \/ \E r \in BMFRegions :
                    Index_add_bmf_index(self, r, BMFIndexOf(r))
             \/ \E cb \in IndexFilters : Index_add_filter(self, cb)
    \/ \E index \in AppInstances : Result_init(index)
    \/ \E self \in DOMAIN results, cb \in FilingFilters :
           Result_add_filter(self, cb)
    \/ \E self \in DOMAIN results : Result_download_count(self)
    \/ \E self \in DOMAIN results : Result_iter(self)
    \/ Result_next

----------------------------------------------------------------------------
(* filter_index_record and filter_filings *)

MaxFields == 2

\* The field names a mapping may name; no record type has a field nonesuch.
IndexFieldNames == {"zip", "object_id", "nonesuch"}

FilingFieldNames == {"formation_year", "website_address", "nonesuch"}

\* The patterns of the mappings, each with the texts that re.search finds it
\* in (among the texts of the fields above)
Patterns == {"59801", "d[12]", "200[0-5]", "org"}

Matching(pattern) ==
    CASE pattern = "59801" -> {"59801"}
      [] pattern = "d[12]" -> {"d1", "d2"}
      [] pattern = "200[0-5]" -> {"2004"}
      [] pattern = "org" -> {"www.a.org", "www.c.org"}

\* pattern.search(text) is not None
Search(pattern, text) == text \in Matching(pattern)

\* A field's value with its Python type
Typed(type, value) ==
    IF value = None THEN None ELSE Some([type |-> type, value |-> value[1]])

\* str(value): the text of an int, a str as it is
Str(v) ==
    IF v.type = "int"
    THEN CHOOSE t \in DOMAIN IntOf : IntOf[t] = v.value
    ELSE v.value

\* The fields has_field finds on an IndexRecord with what get_field returns
\* for them: the annual record's fields first, then the BMF record's
IndexRecordFields(record) ==
    [ein |-> Typed("str", Some(record.annual_record.ein)),
     object_id |-> Typed("str", Some(record.annual_record.object_id)),
     zip |-> Typed("str", Some(record.bmf_record.zip))]

\* The declared fields hasattr finds on a Filing with their values
FilingFields(filing) ==
    [formation_year |-> Typed("int", filing.formation_year),
     website_address |-> Typed("str", filing.website_address)]

\* The mappings of field name to pattern, in the order of their items
Mappings(names) ==
    {m \in SeqsUpTo([key : names, val : Patterns], MaxFields) :
        \A i, j \in DOMAIN m : m[i].key = m[j].key => i = j}

\* The loop of _filter over the mapping's field names, from entry i on
RECURSIVE FilterLoop(_, _, _)
FilterLoop(mapping, fields, i) ==
    IF i > Len(mapping)
    THEN [raised |-> FALSE, ret |-> TRUE]
    ELSE LET f == mapping[i].key
         IN  IF f \notin DOMAIN fields
             THEN [raised |-> TRUE, error |-> "FieldNotFound", name |-> f]
             ELSE IF fields[f] = None
                  THEN [raised |-> FALSE, ret |-> FALSE]
                  ELSE IF ~Search(mapping[i].val, Str(fields[f][1]))
                       THEN [raised |-> FALSE, ret |-> FALSE]
                       ELSE FilterLoop(mapping, fields, i + 1)

\* The IndexRecords and Filings the callbacks are called with
IndexRecordsSeen ==
    UNION {{IndexRecord(DictGet(a.d, e), DictGet(b.d, e)) :
               e \in DictKeys(a.d) \cap DictKeys(b.d)} :
           a \in AnnualIndexObjects, b \in BMFIndexObjects}

FilingsSeen ==
    {Filing_init(Querier_from_file(Documents[d])).filing :
        d \in {"d1", "d2", "d3"}}

\* filter_index_record(mapping)(record)
Call_filter_index_record(mapping, record) ==
    /\ lastCall' = [op |-> "filter_index_record", mapping |-> mapping,
                    record |-> record,
                    result |-> FilterLoop(mapping,
                                          IndexRecordFields(record), 1)]
    /\ UNCHANGED <<indexVars, buildVars, resultVars, fetchVars, app, from_file>>

\* filter_filings(mapping)(filing)
Call_filter_filings(mapping, filing) ==
    /\ lastCall' = [op |-> "filter_filings", mapping |-> mapping,
                    record |-> filing,
                    result |-> FilterLoop(mapping, FilingFields(filing), 1)]
    /\ UNCHANGED <<indexVars, buildVars, resultVars, fetchVars, app, from_file>>

NextFilter ==
    \/ \E mapping \in Mappings(IndexFieldNames), record \in IndexRecordsSeen :
           Call_filter_index_record(mapping, record)
    \/ \E mapping \in Mappings(FilingFieldNames), filing \in FilingsSeen :
           Call_filter_filings(mapping, filing)

----------------------------------------------------------------------------
(* app.run *)

LIMIT_BEFORE_CONFIRM == 100

\* What result.download_count() returns to run, and with it the number of
\* records the iteration of the Result has documents fetched for
DownloadCounts == {0, 3, LIMIT_BEFORE_CONFIRM, LIMIT_BEFORE_CONFIRM + 1}

\* The lines the user may type at the prompt
Answers ==
    { << "y" >>, << "Y" >>, << " ", "y", "e", "s" >>, << "n" >>, << >>,
      << "n", "y" >> }

\* str.strip: the text without the white space at its ends
RECURSIVE StrStrip(_)
StrStrip(raw) ==
    IF raw = << >>
    THEN raw
    ELSE IF Head(raw) = " "
         THEN StrStrip(Tail(raw))
         ELSE IF raw[Len(raw)] = " "
              THEN StrStrip(SubSeq(raw, 1, Len(raw) - 1))
              ELSE raw

\* str.lower
StrLower(raw) ==
    [i \in DOMAIN raw |-> CASE raw[i] = "Y" -> "y"
                            [] raw[i] = "N" -> "n"
                            [] OTHER -> raw[i]]

\* str.startswith
StartsWith(raw, prefix) ==
    /\ Len(prefix) <= Len(raw)
    /\ SubSeq(raw, 1, Len(prefix)) = prefix

\* _message_count
message_count(download_count) ==
    [text |-> "This would download", download_count |-> download_count]

\* _confirm that takes any answer for a yes
confirm_any(raw) == TRUE

\* _confirm, on the line input() returned
confirm(raw) == StartsWith(StrLower(StrStrip(raw)), << "y" >>)

InitApp ==
    app = [pc |-> "idle", dry_run |-> FALSE, no_confirm |-> FALSE,
           download_count |-> 0, raw |-> None, fetched |-> 0, out |-> << >>]

\* run(options) from its start to the point where it returns, waits for the
\* user at input() or hands the Result to the formatter; the indices are
\* registered and download_count was computed on the way.
App_run(dry_run, no_confirm, download_count) ==
    /\ app.pc = "idle"
    /\ app' = [app EXCEPT
                  !.dry_run = dry_run,
                  !.no_confirm = no_confirm,
                  !.download_count = download_count,
                  !.pc = IF dry_run
                         THEN "returned"
                         ELSE IF ~no_confirm
                                  /\ download_count > LIMIT_BEFORE_CONFIRM
                              THEN "input"
                              ELSE "write_all",
                  !.out = IF dry_run
                          THEN << message_count(download_count) >>
                          ELSE << >>]
    /\ lastCall' = [op |-> "run"]
    /\ UNCHANGED <<indexVars, buildVars, resultVars, fetchVars, from_file>>

\* input() returns the line the user typed and run goes on
App_input(raw) ==
    /\ app.pc = "input"
    /\ app' = [app EXCEPT
                  !.raw = Some(raw),
                  !.pc = IF confirm(raw) THEN "write_all" ELSE "returned",
                  !.out = IF confirm(raw) THEN @ ELSE Append(@, "Aborting")]
    /\ lastCall' = [op |-> "input"]
    /\ UNCHANGED <<indexVars, buildVars, resultVars, fetchVars, from_file>>

\* One pass of the loop of formatter.write_all(result): the iteration of the
\* Result fetches the document of the next record, or it has none left and
\* run returns after the epilogue.
App_write ==
    /\ app.pc = "write_all"
    /\ app' = IF app.fetched < app.download_count
              THEN [app EXCEPT !.fetched = @ + 1]
              ELSE [app EXCEPT !.pc = "returned"]
    /\ lastCall' = [op |-> "write_all"]
    /\ UNCHANGED <<indexVars, buildVars, resultVars, fetchVars, from_file>>

\* One pass of the loop in which the fetch or the Filing raises: the
\* document was asked for and the exception leaves run.
App_write_raises ==
    /\ app.pc = "write_all"
    /\ app.fetched < app.download_count
    /\ app' = [app EXCEPT !.fetched = @ + 1, !.pc = "raised"]
    /\ lastCall' = [op |-> "write_all"]
    /\ UNCHANGED <<indexVars, buildVars, resultVars, fetchVars, from_file>>

NextApp ==
    \/ \E dry_run \in BOOLEAN, no_confirm \in BOOLEAN,
          download_count \in DownloadCounts :
           App_run(dry_run, no_confirm, download_count)
    \/ \E raw \in Answers : App_input(raw)
    \/ App_write
    \/ App_write_raises

----------------------------------------------------------------------------
(* The Index driven by its callers *)

InitIndex ==
    /\ annual_indices = << >>
    /\ annual_years = {}
    /\ bmf_indices = << >>
    /\ bmf_regions = {}
    /\ filters = {}
    /\ registered = << >>
    /\ length = [i \in Instances |-> None]

InitResult ==
    /\ results = << >>
    /\ gen = None
    /\ fetch_log = << >>
    /\ pulled = << >>

InitFetch ==
    /\ cache = None
    /\ cache_dict = << >>
    /\ cache_files = << >>
    /\ requests = << >>
    /\ writes = << >>
    /\ served = << >>
    /\ nfetch = 0
    /\ puts = << >>
    /\ InitApp
    /\ InitFromFile

Init ==
    /\ InitIndex
    /\ InitBuild
    /\ InitResult
    /\ InitFetch
    /\ lastCall = [op |-> "init"]

Next ==
    \E self \in AppInstances :
        \/ Index_iter(self)
        \/ Index_len(self)
        \/ Index_object_ids(self)
        \/ \E y \in AnnualYears, a \in AnnualIndexObjects :
               Index_add_annual_index(self, y, a)
        \/ \E r \in BMFRegions, b \in BMFIndexObjects :
               Index_add_bmf_index(self, r, b)
        \/ \E cb \in IndexFilters : Index_add_filter(self, cb)
        \/ \E cb \in IndexFilters : Index_remove_filter(self, cb)
        \/ \E x \in AnnualIndexObjects \cup BMFIndexObjects :
               Index_remove_index(self, x)

\* The Index driven by any caller
Spec == Init /\ [][Next]_vars

\* Two Index instances, each driven by its caller, who registers for a year
\* or a region the index object built for it
NextIndices ==
    \E self \in Instances :
        \/ Index_iter(self)
        \/ Index_len(self)
        \/ \E y \in AnnualYears :
               Index_add_annual_index(self, y, AnnualIndexOf(y))
        \/ \E r \in BMFRegions :
               Index_add_bmf_index(self, r, BMFIndexOf(r))
        \/ \E cb \in IndexFilters : Index_add_filter(self, cb)
        \/ \E cb \in IndexFilters : Index_remove_filter(self, cb)
        \/ \E y \in AnnualYears : Index_remove_index(self, AnnualIndexOf(y))
        \/ \E r \in BMFRegions : Index_remove_index(self, BMFIndexOf(r))

SpecIndices == Init /\ [][NextIndices]_vars

\* The builders called with any Downloader
SpecBuild == Init /\ [][NextBuild]_vars

\* An HTTPDownloader constructed with a new MemoryCache, or with a
\* DirectoryCache on a directory that may hold files of earlier runs
InitDownloader ==
    /\ InitIndex
    /\ InitBuild
    /\ InitResult
    /\ cache \in {Some(MemoryCache_init),
                  Some(DirectoryCache_init("xml", ".pyrs990-cache"))}
    /\ cache_dict = << >>
    /\ cache_files \in
           IF cache[1].kind = "DirectoryCache"
           THEN [{CachePath(cache[1], k) : k \in DocumentKeys}
                     -> {None} \cup {Some(t) : t \in Texts}]
           ELSE {<< >>}
    /\ requests = [k \in DocumentKeys |-> [ok |-> 0, failed |-> 0]]
    /\ writes = [k \in DocumentKeys |-> 0]
    /\ served = [k \in DocumentKeys |-> 0]
    /\ nfetch = 0
    /\ puts = << >>
    /\ InitApp
    /\ InitFromFile
    /\ lastCall = [op |-> "init"]

SpecFetch == InitDownloader /\ [][NextFetch]_vars

\* New caches, the DirectoryCache objects on a new directory, called by any
\* caller
InitCache ==
    /\ InitIndex
    /\ InitBuild
    /\ InitResult
    /\ cache = None
    /\ cache_dict = << >>
    /\ cache_files = [f \in CacheFiles |-> None]
    /\ requests = << >>
    /\ writes = << >>
    /\ served = << >>
    /\ nfetch = 0
    /\ puts = << >>
    /\ InitApp
    /\ InitFromFile
    /\ lastCall = [op |-> "init"]

SpecCache == InitCache /\ [][NextCache]_vars

\* The callbacks of filter_index_record and filter_filings called
SpecFilter == Init /\ [][NextFilter]_vars

\* app.run with any options, any number of documents and any user
SpecApp == Init /\ [][NextApp]_vars

\* Querier.from_file called with any text; the code of a call that has
\* started keeps running
SpecFromFile ==
    /\ Init
    /\ [][NextFromFile]_vars
    /\ WF_vars(FromFile_while)
    /\ WF_vars(FromFile_fromstring)

\* Index documents parsed by from_csv
SpecParse == Init /\ [][NextParse]_vars

\* Filings constructed from, and lookups made on, Queriers over any tree
SpecFiling == Init /\ [][NextFiling]_vars

\* A Result constructed on an Index, extended and iterated by a consumer
SpecResult == Init /\ [][NextResult]_vars

----------------------------------------------------------------------------
(* Properties of the Index *)

EinCount(out, e) ==
    Cardinality({i \in DOMAIN out : out[i].annual_record.ein = e})

\* C1: with one Annual Index A and one Master Index B registered and no
\* filters, a full iteration yields exactly one IndexRecord for each EIN that
\* is in both A and B and none for an EIN in only one of them, and every
\* yielded record pairs A's record with B's record for its EIN, so the two
\* halves carry the same ein.
C1_JoinYieldsIntersection ==
    (/\ lastCall.op = "iter"
     /\ filters = {}
     /\ Len(annual_indices) = 1
     /\ Len(bmf_indices) = 1)
    => LET A == annual_indices[1].d
           B == bmf_indices[1].d
           out == lastCall.ret
       IN  /\ \A e \in EINs :
                 EinCount(out, e) =
                     IF e \in DictKeys(A) \cap DictKeys(B) THEN 1 ELSE 0
           /\ \A i \in DOMAIN out :
                 LET e == out[i].annual_record.ein
                 IN  /\ e \in DictKeys(A) \cap DictKeys(B)
                     /\ out[i].annual_record = DictGet(A, e)
                     /\ out[i].bmf_record = DictGet(B, e)
                     /\ out[i].bmf_record.ein = e

\* An iteration over A = {111, 222} and B = {111, 333}: each side has an EIN
\* the other lacks, and exactly the shared one is yielded.
C1_Witness ==
    /\ lastCall.op = "iter"
    /\ filters = {}
    /\ Len(annual_indices) = 1
    /\ Len(bmf_indices) = 1
    /\ DictKeys(annual_indices[1].d) = {"111", "222"}
    /\ DictKeys(bmf_indices[1].d) = {"111", "333"}
    /\ Len(lastCall.ret) = 1
    /\ lastCall.ret[1].annual_record.ein = "111"

\* C2: whatever registration, filter and removal calls came before, length()
\* returns the number of records a full iteration yields at that moment, and
\* a memoized length is never stale.
C2_LengthIsIterationCount ==
    /\ lastCall.op = "len" => lastCall.ret = Len(IndexIter)
    /\ \A self \in Instances :
          length[self] # None => length[self][1] = Len(IndexIter)

\* length() returned a count with indices registered and a filter that
\* excludes some joined record active.
C2_Witness ==
    /\ lastCall.op = "len"
    /\ lastCall.ret > 0
    /\ filters # {}
    /\ Len(annual_indices) = 2
    /\ \E a \in DOMAIN annual_indices, b \in DOMAIN bmf_indices :
          \E e \in DictKeys(annual_indices[a].d) \cap DictKeys(bmf_indices[b].d) :
              \E cb \in filters :
                  ~IndexFilterCall(cb, IndexRecord(DictGet(annual_indices[a].d, e),
                                                  DictGet(bmf_indices[b].d, e)))

\* C10: a registration call that repeats the call made just before it (the
\* same year or region, with the same or another index object) leaves
\* iteration, object_ids() and length() as the first call left them.
C10_AddTwiceIsAddOnce ==
    (/\ lastCall.op \in {"add_annual_index", "add_bmf_index"}
     /\ lastCall.again)
    => Observed = lastCall.before

\* The year 2018 was registered twice in a row, the second time with another
\* index object than the one registered, and the Index yields records.
C10_Witness ==
    /\ lastCall.op = "add_annual_index"
    /\ lastCall.key = 2018
    /\ lastCall.again
    /\ ~lastCall.held
    /\ annual_indices # << >>
    /\ IndexIter # << >>

----------------------------------------------------------------------------
(* Properties of the index builders *)

AllSame(seq) == \A i, j \in DOMAIN seq : seq[i] = seq[j]

\* C3: all calls of get_annual_index with one year return the identical index
\* object and the Downloader's fetch is called at most once for that year;
\* likewise get_bmf_index and a region.
C3_SameObjectOneFetch ==
    /\ \A y \in AnnualYears :
          AllSame(returned.annual[y]) /\ fetches.annual[y] <= 1
    /\ \A r \in BMFRegions :
          AllSame(returned.bmf[r]) /\ fetches.bmf[r] <= 1

\* get_annual_index(2018) returned twice: one fetch, one object, with records.
C3_Witness ==
    /\ Len(returned.annual[2018]) = 2
    /\ fetches.annual[2018] = 1
    /\ heap[returned.annual[2018][2]] # << >>
    /\ lastCall.op = "get_annual_index"

----------------------------------------------------------------------------
(* Properties of the HTTPDownloader *)

\* The cache held content for the key when the downloader was constructed:
\* it holds content that no fetch wrote.
Preloaded(k) == Stored(cache[1], k) # None /\ writes[k] = 0

\* C7: through one HTTPDownloader, however often a key is fetched, at most
\* one successful retrieval is made and at most one cache file is written
\* for it, and a key that was not cached at first and has been served has
\* exactly one successful retrieval and exactly one cache file written.
C7_OneRetrievalOneFile ==
    \A k \in DocumentKeys :
        /\ requests[k].ok <= 1
        /\ writes[k] <= 1
        /\ (served[k] >= 1 /\ ~Preloaded(k))
               => /\ requests[k].ok = 1
                  /\ writes[k] = 1
                  /\ Stored(cache[1], k) # None

\* One key fetched twice through a DirectoryCache that did not hold it:
\* both calls served it, with one retrieval and one file written.
C7_Witness ==
    /\ cache[1].kind = "DirectoryCache"
    /\ \E k \in DocumentKeys :
          /\ served[k] = 2
          /\ requests[k].ok = 1
          /\ writes[k] = 1
          /\ cache_files[CachePath(cache[1], k)] # None
    /\ lastCall.op = "fetch"
    /\ ~lastCall.requested

\* C8: a fetch of a key the cache holds content for makes no retrieval,
\* leaves the cache as it was and returns exactly the text that was stored.
C8_HitReturnsStoredText ==
    (lastCall.op = "fetch" /\ lastCall.before # None)
    => /\ ~lastCall.requested
       /\ ~lastCall.raised
       /\ Stored(cache[1], lastCall.key) = lastCall.before
       /\ lastCall.ret = lastCall.before[1]

\* C9: on a miss answered with a status outside 200..299 fetch raises
\* DownloaderException with the response body and the cache still holds
\* nothing for the key; and every fetch of a key the cache holds nothing for
\* makes a retrieval, so the next fetch of that key retrieves again.
C9_FailureRaisesAndCachesNothing ==
    (lastCall.op = "fetch" /\ lastCall.before = None)
    => /\ lastCall.requested
       /\ lastCall.raised = (lastCall.status < 200 \/ lastCall.status > 299)
       /\ lastCall.raised
              => /\ lastCall.error = lastCall.response
                 /\ Cache_get(cache[1], lastCall.key) = None
                 /\ Stored(cache[1], lastCall.key) = None

\* A second fetch of a key was answered with a failure as the first was: it
\* retrieved again and raised with the body it got.
C9_Witness ==
    /\ lastCall.op = "fetch"
    /\ lastCall.raised
    /\ lastCall.status = 300
    /\ lastCall.error # << >>
    /\ requests[lastCall.key].failed = 2

----------------------------------------------------------------------------
(* Properties of the Result *)

\* C4: creating the iterator of a Result fetches nothing, and when the
\* consumer has pulled n Filings, one document was fetched for each record up
\* to the one that produced the n-th Filing, in the Index's order, and none
\* for any record that comes after it.
C4_FetchOnlyUpToPulled ==
    gen # None
    => /\ lastCall.op = "Result.iter" => fetch_log = << >>
       /\ pulled = << >> /\ ~gen[1].done => fetch_log = << >>
       /\ (pulled # << >> /\ ~gen[1].done)
              => LET last == pulled[Len(pulled)].pos
                 IN  /\ Len(fetch_log) = last
                     /\ \A i \in DOMAIN fetch_log :
                           /\ fetch_log[i].pos = i
                           /\ fetch_log[i].pos <= last
                           /\ fetch_log[i].document =
                                  IndexIter[i].annual_record.object_id

\* The consumer pulled one Filing and stopped: the records before it were
\* fetched and filtered out, and a record after it remains, not fetched.
C4_Witness ==
    /\ gen # None
    /\ ~gen[1].done
    /\ lastCall.op = "Result.next"
    /\ lastCall.outcome = "yield"
    /\ Len(pulled) = 1
    /\ pulled[1].pos = 3
    /\ Len(fetch_log) = 3
    /\ Len(IndexIter) > 3

\* C5: add_filter leaves every Result constructed before the call, the one it
\* was called on among them, with the list of callbacks it had and yielding
\* the Filings it yielded before the call.
C5_AddFilterLeavesOriginal ==
    lastCall.op = "Result.add_filter"
    => \A i \in DOMAIN lastCall.before :
          /\ results[i].filters = lastCall.before[i].filters
          /\ Result_list(i).yielded = lastCall.before[i].yielded

\* A second add_filter, called on a Result that has a callback and yields
\* Filings, returned a Result that yields fewer.
C5_Witness ==
    /\ lastCall.op = "Result.add_filter"
    /\ Len(results) = 3
    /\ results[lastCall.self].filters # << >>
    /\ Result_list(lastCall.self).yielded # << >>
    /\ Len(Result_list(lastCall.ret).yielded)
           < Len(Result_list(lastCall.self).yielded)

\* Whether the callbacks called for a filing are those of fs, in order, up to
\* and including the first that fails.
ShortCircuit(fs, called, filing) ==
    /\ Len(called) <= Len(fs)
    /\ called = SubSeq(fs, 1, Len(called))
    /\ \A j \in 1..(Len(called) - 1) : FilingFilterCall(called[j], filing)
    /\ Len(called) < Len(fs)
           => /\ called # << >>
              /\ ~FilingFilterCall(called[Len(called)], filing)

\* C6: the Result that r.add_filter(p) returns holds r's callbacks in r's
\* order followed by p, yields exactly the Filings that r yields and that
\* satisfy p, in the same order, and calls its callbacks for each filing in
\* order up to the first that fails.
C6_AddFilterConjoins ==
    lastCall.op = "Result.add_filter"
    => LET r == results[lastCall.self]
           c == results[lastCall.ret]
           Satisfies(filing) == FilingFilterCall(lastCall.cb, filing)
           of_r == Result_list(lastCall.self)
           of_c == Result_list(lastCall.ret)
       IN  /\ c.filters = r.filters \o << lastCall.cb >>
           /\ of_c.yielded = SelectSeq(of_r.yielded, Satisfies)
           /\ \A i \in DOMAIN of_c.log :
                 of_c.log[i].filing # None
                     => ShortCircuit(c.filters, of_c.log[i].called,
                                     of_c.log[i].filing[1])

\* add_filter called on a Result whose callback rejects a Filing that the
\* new callback accepts: the new Result stops at the first callback for that
\* Filing, and yields a Filing that passes both.
C6_Witness ==
    /\ lastCall.op = "Result.add_filter"
    /\ results[lastCall.self].filters # << >>
    /\ Result_list(lastCall.ret).yielded # << >>
    /\ \E i \in DOMAIN Result_list(lastCall.ret).log :
          LET e == Result_list(lastCall.ret).log[i]
          IN  /\ e.filing # None
              /\ Len(e.called) = 1
              /\ FilingFilterCall(lastCall.cb, e.filing[1])

\* C11: download_count() returns the number of documents a full iteration of
\* the Result then fetches, one for each record the Index yields, and never
\* less than the number of Filings the iteration yields; an iteration that
\* an exception ends early has fetched no more than that number.
C11_DownloadCountIsFetchCount ==
    lastCall.op = "Result.download_count"
    => LET run == Result_list(lastCall.self)
       IN  /\ lastCall.ret = Len(IndexIter)
           /\ run.outcome = "StopIteration" => lastCall.ret = Len(run.log)
           /\ Len(run.log) <= lastCall.ret
           /\ Len(run.yielded) <= lastCall.ret

\* download_count() of a Result whose full iteration fetches three documents
\* and yields two Filings.
C11_Witness ==
    /\ lastCall.op = "Result.download_count"
    /\ lastCall.ret = 3
    /\ Result_list(lastCall.self).outcome = "StopIteration"
    /\ Len(Result_list(lastCall.self).log) = 3
    /\ Len(Result_list(lastCall.self).yielded) = 2

\* C12: when a call of get_annual_index or get_bmf_index raised, no index is
\* registered for its key, so a later call with the key builds the index
\* anew and does not return what the failed call left.
C12_FailedBuildLeavesNothing ==
    /\ (lastCall.op = "get_annual_index" /\ lastCall.raised)
           => annual_registry[lastCall.key] = None
    /\ (lastCall.op = "get_bmf_index" /\ lastCall.raised)
           => bmf_registry[lastCall.key] = None

----------------------------------------------------------------------------
(* Properties of the caches *)

\* The content of the most recent put of the key on the cache object, None
\* when there was none
LatestPut(self, cache_key) ==
    LET on == SelectSeq(puts, LAMBDA c : c.self = self /\ c.key = cache_key)
    IN  IF on = << >> THEN None ELSE Some(on[Len(on)].content)

\* C13: on a MemoryCache and on a DirectoryCache, put(k, c) returns c and
\* get(k) then returns c, a put leaves what get returns for the other keys
\* of the cache, and get(k) returns None for a key never put and else the
\* content of the most recent put for k.
C13_GetReturnsLatestPut ==
    /\ lastCall.op = "put"
           => /\ lastCall.ret = lastCall.content
              /\ Cache_get(lastCall.self, lastCall.key)
                     = Some(lastCall.content)
              /\ \A k \in CacheKeys \ {lastCall.key} :
                     Cache_get(lastCall.self, k)
                         = lastCall.before[lastCall.self][k]
    /\ lastCall.op = "get"
           => lastCall.ret = LatestPut(lastCall.self, lastCall.key)

\* C14: on a MemoryCache and on a DirectoryCache, contains(key) returns a
\* boolean, true exactly when get(key) returns content.
C14_ContainsIffGetReturnsContent ==
    lastCall.op = "contains"
    => /\ lastCall.ret # None
       /\ lastCall.truth = (Cache_get(lastCall.self, lastCall.key) # None)

\* The DirectoryCache objects, which share one directory
DirectoryCaches == {c \in CacheObjects : c.kind = "DirectoryCache"}

\* Whether the text s ends with the text t
EndsWith(s, t) == \E p \in {"", ".bak"} : s = p \o t

\* After a put on a DirectoryCache: the file named key followed by the
\* cache's extension holds the content, and get returns what it returned
\* before the put for every key on the other cache.
PutLeaves(other) ==
    /\ lastCall.key \o lastCall.self.extension \in DOMAIN cache_files
    /\ cache_files[lastCall.key \o lastCall.self.extension]
           = Some(FileWrite(lastCall.content))
    /\ \A k \in CacheKeys :
           Cache_get(other, k) = lastCall.before[other][k]

\* C15 as stated: a put(k, c) on a DirectoryCache writes the file named k
\* followed by the cache's extension and changes the result of get(k') on no
\* DirectoryCache of the same directory with a different extension, for any
\* keys k, k'.
C15_DifferentExtensionsNeverCollide ==
    (lastCall.op = "put" /\ lastCall.self.kind = "DirectoryCache")
    => \A other \in DirectoryCaches :
           other.extension # lastCall.self.extension => PutLeaves(other)

\* C15 amended: the same for two DirectoryCache objects of one directory
\* neither of whose extensions ends with the other's, as with ".csv" and
\* ".xml".
C15_UnrelatedExtensionsNeverCollide ==
    (lastCall.op = "put" /\ lastCall.self.kind = "DirectoryCache")
    => \A other \in DirectoryCaches :
           (/\ ~EndsWith(other.extension, lastCall.self.extension)
            /\ ~EndsWith(lastCall.self.extension, other.extension))
               => PutLeaves(other)

\* The ".xml" cache put content under a key that the ".csv" cache holds other
\* content for, and the ".csv" cache still returns its own.
C15_Witness ==
    /\ lastCall.op = "put"
    /\ lastCall.self.kind = "DirectoryCache"
    /\ lastCall.self.extension = ".xml"
    /\ lastCall.content = << "x" >>
    /\ \E other \in DirectoryCaches :
          /\ other.extension = ".csv"
          /\ lastCall.before[other][lastCall.key] = Some(<< >>)
          /\ Cache_get(other, lastCall.key) = Some(<< >>)
          /\ Cache_get(lastCall.self, lastCall.key) = Some(<< "x" >>)

----------------------------------------------------------------------------
(* More properties of the Index *)

\* C16: add_filter(p) makes p active, and when p was active it leaves the
\* filter set, iteration, object_ids() and length() as they were;
\* remove_filter(p) leaves the filter set without p and with every other
\* filter, however often p was added, and when p was not active it raises
\* nothing and leaves everything as it was.
C16_FiltersAreASet ==
    /\ lastCall.op = "add_filter"
           => /\ filters = lastCall.was \cup {lastCall.arg}
              /\ lastCall.arg \in lastCall.was
                     => filters = lastCall.was /\ Observed = lastCall.before
    /\ lastCall.op = "remove_filter"
           => /\ ~lastCall.raised
              /\ filters = lastCall.was \ {lastCall.arg}
              /\ lastCall.arg \notin lastCall.was
                     => filters = lastCall.was /\ Observed = lastCall.before

\* add_filter of a filter that is active and excludes a record of a joined
\* pair, on an Index that yields records.
C16_Witness ==
    /\ lastCall.op = "add_filter"
    /\ lastCall.arg \in lastCall.was
    /\ IndexIter # << >>
    /\ \E a \in DOMAIN annual_indices, b \in DOMAIN bmf_indices :
          \E e \in DictKeys(annual_indices[a].d) \cap DictKeys(bmf_indices[b].d) :
              ~IndexFilterCall(lastCall.arg,
                               IndexRecord(DictGet(annual_indices[a].d, e),
                                           DictGet(bmf_indices[b].d, e)))

\* The identities of the objects a list holds, in order
Ids(l) == [i \in DOMAIN l |-> l[i].id]

\* The list of identities without the first occurrence of id, if it has one
WithoutId(ids, id) ==
    IF \E i \in DOMAIN ids : ids[i] = id
    THEN LET i == CHOOSE j \in DOMAIN ids :
                      ids[j] = id /\ \A m \in 1..(j - 1) : ids[m] # id
         IN  SubSeq(ids, 1, i - 1) \o SubSeq(ids, i + 1, Len(ids))
    ELSE ids

\* C17: remove_index(x) removes from the registered indices the object that
\* is x itself, if it is registered, and no other object, whatever the
\* contents of the others.
C17_RemoveIndexByIdentity ==
    lastCall.op = "remove_index"
    => /\ Ids(annual_indices) = WithoutId(Ids(lastCall.was.annual), lastCall.arg)
       /\ Ids(bmf_indices) = WithoutId(Ids(lastCall.was.bmf), lastCall.arg)

\* C18: object_ids() yields as many values as iteration of the Index yields
\* records, the i-th being the object_id of the annual record of the i-th
\* record.
C18_ObjectIdsFollowIteration ==
    lastCall.op = "object_ids"
    => /\ Len(lastCall.ret) = Len(IndexIter)
       /\ \A i \in DOMAIN lastCall.ret :
             lastCall.ret[i] = IndexIter[i].annual_record.object_id

\* object_ids() on an Index with a filter active that joins one annual index
\* with two BMF indices: an object id is yielded twice.
C18_Witness ==
    /\ lastCall.op = "object_ids"
    /\ filters # {}
    /\ Len(lastCall.ret) >= 3
    /\ \E i, j \in DOMAIN lastCall.ret :
          i # j /\ lastCall.ret[i] = lastCall.ret[j]
    /\ \E i, j \in DOMAIN lastCall.ret : lastCall.ret[i] # lastCall.ret[j]

----------------------------------------------------------------------------
(* Properties of the filters *)

\* C19: a callback built from a mapping that names a field the record type
\* does not have raises FieldNotFound on every record it is called with, and
\* returns no decision.
C19_UnknownFieldAlwaysRaises ==
    (/\ lastCall.op \in {"filter_index_record", "filter_filings"}
     /\ \E i \in DOMAIN lastCall.mapping : lastCall.mapping[i].key = "nonesuch")
    => /\ lastCall.result.raised
       /\ lastCall.result.error = "FieldNotFound"

----------------------------------------------------------------------------
(* Properties of the Filing *)

\* C20: find_str, find_int and find_float return None and raise nothing for
\* a path that does not resolve; Filing(querier) gives None to every field
\* whose paths do not resolve, and raises only for a path that resolves to a
\* text the field's conversion rejects, never for an absent one.
C20_AbsentPathGivesNone ==
    /\ (/\ lastCall.op \in {"find_str", "find_int", "find_float"}
        /\ lastCall.path \notin DOMAIN lastCall.querier)
           => /\ ~lastCall.result.raised
              /\ lastCall.result.value = None
    /\ lastCall.op = "Filing"
           => LET tree == lastCall.querier
                  absent(path) == path \notin DOMAIN tree
              IN  IF lastCall.result.raised
                  THEN /\ ~absent("/IRS990/FormationYr")
                       /\ tree["/IRS990/FormationYr"] \notin DOMAIN IntOf
                  ELSE LET f == lastCall.result.filing
                       IN  /\ absent("/IRS990/FormationYr")
                                => f.formation_year = None
                           /\ absent("/IRS990/WebsiteAddressTxt")
                                => f.website_address = None
                           /\ (/\ absent("/IRS990/USAddress/AddressLine1Txt")
                               /\ absent("/IRS990/USAddress/AddressLine2Txt"))
                                => f.us_address = None

\* A Filing constructed from a document without FormationYr and without the
\* address lines, with a website: the absent fields are None.
C20_Witness ==
    /\ lastCall.op = "Filing"
    /\ DOMAIN lastCall.querier = {"/IRS990/WebsiteAddressTxt"}
    /\ ~lastCall.result.raised
    /\ lastCall.result.filing.formation_year = None
    /\ lastCall.result.filing.us_address = None
    /\ lastCall.result.filing.website_address # None

\* C21: when the path of a numeric field resolves to a text the conversion
\* rejects, no Filing is constructed for the document: the ValueError of the
\* conversion ends the iteration of the Result and reaches the consumer, and
\* no Filing is yielded for the record; a Filing that is constructed carries
\* the converted value of every text found.
C21_ConversionErrorPropagates ==
    \A i \in DOMAIN fetch_log :
        LET e == fetch_log[i]
            tree == Querier_from_file(Downloader_fetch(e.document))
            raw_value == Querier_find_str(tree, "/IRS990/FormationYr")
        IN  /\ (raw_value # None /\ raw_value[1] \notin DOMAIN IntOf)
                   => /\ e.filing = None
                      /\ i = Len(fetch_log)
                      /\ gen # None /\ gen[1].done
                      /\ lastCall.op = "Result.next"
                             => lastCall.outcome = "ValueError"
                      /\ \A p \in DOMAIN pulled : pulled[p].pos # e.pos
            /\ (e.filing # None /\ raw_value # None)
                   => e.filing[1].formation_year = Some(IntOf[raw_value[1]])

\* The consumer pulled Filings and then pulled the record of d4, whose
\* FormationYr is "n/a": the pull raised ValueError.
C21_Witness ==
    /\ lastCall.op = "Result.next"
    /\ lastCall.outcome = "ValueError"
    /\ pulled # << >>
    /\ fetch_log[Len(fetch_log)].document = "d4"
    /\ fetch_log[Len(fetch_log)].filing = None

----------------------------------------------------------------------------
(* Properties of the record parsers *)

\* Whether the line of the file has a cell in the column of that name
HasCell(index_file, line, name) ==
    \E j \in DOMAIN index_file.fieldnames :
        index_file.fieldnames[j] = name /\ j <= Len(line)

\* The cell of the line in the column of that name
CellOf(index_file, line, name) ==
    line[CHOOSE j \in DOMAIN index_file.fieldnames :
             index_file.fieldnames[j] = name]

\* C22: from_csv on a document with a data row that lacks one of the
\* required columns raises an error that names a column the first such row
\* lacks; on a document whose rows all have every required column it yields
\* one record per row, in order, none skipped, whose lower-cased field names
\* carry the row's cells.
C22_RowLackingColumnFails ==
    lastCall.op \in {"AnnualRecord.from_csv", "BMFRecord.from_csv"}
    => LET names == lastCall.field_names
           index_file == lastCall.file
           rows == SelectSeq(index_file.lines, LAMBDA l : l # << >>)
           Complete(line) ==
               \A i \in DOMAIN names : HasCell(index_file, line, names[i])
           lacking == {i \in DOMAIN rows : ~Complete(rows[i])}
       IN  IF lacking # {}
           THEN LET first == CHOOSE i \in lacking : \A j \in lacking : i <= j
                IN  /\ lastCall.result.raised
                    /\ \E i \in DOMAIN names :
                          /\ lastCall.result.error = names[i]
                          /\ ~HasCell(index_file, rows[first], names[i])
           ELSE /\ ~lastCall.result.raised
                /\ Len(lastCall.result.records) = Len(rows)
                /\ \A r \in DOMAIN rows :
                      \A i \in DOMAIN names :
                          lastCall.result.records[r][Lower(names[i])]
                              = Some(CellOf(index_file, rows[r], names[i]))

----------------------------------------------------------------------------
(* Properties of app.run *)

\* Whether run has had no filing document fetched where the claim says so,
\* an answer confirming when Confirms(answer) holds
GatedBy(Confirms(_)) ==
    /\ app.dry_run
           => /\ app.fetched = 0
              /\ app.pc = "returned"
              /\ app.out = << message_count(app.download_count) >>
    /\ (~app.dry_run /\ ~app.no_confirm
            /\ app.download_count > LIMIT_BEFORE_CONFIRM)
           => /\ app.fetched > 0 => app.raw # None /\ Confirms(app.raw[1])
              /\ (app.raw # None /\ ~Confirms(app.raw[1]))
                     => /\ app.fetched = 0
                        /\ app.pc = "returned"
                        /\ app.out = << "Aborting" >>
              /\ (app.raw # None /\ Confirms(app.raw[1]))
                     => app.pc \in {"write_all", "returned", "raised"}

\* C23 as stated: run fetches no filing document when dry_run is set and
\* only reports download_count; when download_count exceeds 100 and
\* no_confirm is not set it fetches filing documents only after the user
\* answered with a text that starts with "y", and else aborts without
\* fetching one.
C23_FetchOnlyAfterY ==
    GatedBy(LAMBDA raw : StartsWith(raw, << "y" >>))

\* C23 amended: the same, the answer being one that starts with "y" once
\* the white space at its ends is stripped and it is lower-cased.
C23_FetchOnlyAfterYes ==
    GatedBy(LAMBDA raw : StartsWith(StrLower(StrStrip(raw)), << "y" >>))

\* run without no_confirm for 101 documents: the user answered " yes" and
\* all documents were fetched.
C23_Witness ==
    /\ ~app.dry_run
    /\ ~app.no_confirm
    /\ app.download_count = LIMIT_BEFORE_CONFIRM + 1
    /\ app.raw = Some(<< " ", "y", "e", "s" >>)
    /\ app.fetched = app.download_count
    /\ app.pc = "returned"

\* C24: a full iteration tests each joined record against the active
\* predicates in the order in which add_filter registered them, stops at the
\* first that fails, and yields the record if and only if all of them pass.
C24_FiltersInRegistrationOrder ==
    lastCall.op = "iter"
    => /\ \A i \in DOMAIN lastCall.calls :
             LET c == lastCall.calls[i]
                 n == Len(c.called)
             IN  /\ n <= Len(registered)
                 /\ c.called = SubSeq(registered, 1, n)
                 /\ \A j \in 1..(n - 1) :
                       IndexFilterCall(c.called[j], c.record)
                 /\ n < Len(registered)
                       => n > 0 /\ ~IndexFilterCall(c.called[n], c.record)
                 /\ c.yielded
                       <=> \A cb \in filters : IndexFilterCall(cb, c.record)
       /\ lastCall.ret
              = LET yielded == SelectSeq(lastCall.calls, LAMBDA c : c.yielded)
                IN  [i \in DOMAIN yielded |-> yielded[i].record]

\* The places of the join: annual index a, BMF index b and annual record k
\* of a, for the records whose ein is in b
JoinPlaces ==
    UNION {{<<a, b, k>> :
               k \in {j \in DOMAIN annual_indices[a].d :
                         DictHas(bmf_indices[b].d,
                                 annual_indices[a].d[j].val.ein)}} :
           a \in DOMAIN annual_indices, b \in DOMAIN bmf_indices}

\* Whether place s comes before place t in the nested order
PlaceBefore(s, t) ==
    \/ s[1] < t[1]
    \/ s[1] = t[1] /\ s[2] < t[2]
    \/ s[1] = t[1] /\ s[2] = t[2] /\ s[3] < t[3]

PlaceRank(t) == Cardinality({s \in JoinPlaces : PlaceBefore(s, t)}) + 1

\* C25: with no filters, a full iteration yields for each annual record of
\* each registered annual index one IndexRecord per registered BMF index
\* that contains its ein, none when no BMF index does, and it yields the
\* records in the nested order: by annual index, then by BMF index, then by
\* annual record.
C25_NestedJoinOrder ==
    (lastCall.op = "iter" /\ filters = {})
    => /\ Len(lastCall.ret) = Cardinality(JoinPlaces)
       /\ \A t \in JoinPlaces :
             LET annual_record == annual_indices[t[1]].d[t[3]].val
             IN  lastCall.ret[PlaceRank(t)]
                     = IndexRecord(annual_record,
                                   DictGet(bmf_indices[t[2]].d,
                                           annual_record.ein))
       /\ \A a \in DOMAIN annual_indices :
             \A k \in DOMAIN annual_indices[a].d :
                 Cardinality({PlaceRank(t) :
                                 t \in {u \in JoinPlaces :
                                           u[1] = a /\ u[3] = k}})
                     = Cardinality({b \in DOMAIN bmf_indices :
                           DictHas(bmf_indices[b].d,
                                   annual_indices[a].d[k].val.ein)})

\* A full iteration of an Index with two annual and two BMF indices and no
\* filters: one annual record has its ein in both BMF indices and one has
\* its ein in neither.
C25_Witness ==
    /\ lastCall.op = "iter"
    /\ filters = {}
    /\ Len(annual_indices) = 2
    /\ Len(bmf_indices) = 2
    /\ \E a \in DOMAIN annual_indices :
          \E k \in DOMAIN annual_indices[a].d :
              \A b \in DOMAIN bmf_indices :
                  DictHas(bmf_indices[b].d, annual_indices[a].d[k].val.ein)
    /\ \E a \in DOMAIN annual_indices :
          \E k \in DOMAIN annual_indices[a].d :
              \A b \in DOMAIN bmf_indices :
                  ~DictHas(bmf_indices[b].d, annual_indices[a].d[k].val.ein)
    /\ annual_indices[1].d # annual_indices[2].d
    /\ bmf_indices[1].d # bmf_indices[2].d

\* C26: a call that registers or removes an index or a filter on one Index
\* instance leaves every other instance yielding the records it yielded
\* before the call and its length() returning the value it returned before.
\* (The records an instance yields are those of IndexIter: the lists and the
\* set are attributes of the class.)
C26_InstancesIndependent ==
    lastCall.op \in {"add_annual_index", "add_bmf_index", "add_filter",
                     "remove_filter", "remove_index"}
    => \A other \in Instances \ {lastCall.self} :
           /\ IndexIter = lastCall.before[1]
           /\ LengthReturns(other) = lastCall.before[3][other]

\* C27: the set of registered years matches the list of registered annual
\* indices, one year for each index, and the regions match the BMF indices
\* likewise; so after remove_index removed the index of a year, an
\* add_annual_index for the year registers its index, and after any
\* add_annual_index(Y, x) the list holds an index for Y (add_bmf_index
\* likewise).
C27_KeysMatchIndices ==
    /\ Cardinality(annual_years) = Len(annual_indices)
    /\ Cardinality(bmf_regions) = Len(bmf_indices)
    /\ lastCall.op = "add_annual_index"
           => lastCall.key \in annual_years /\ annual_indices # << >>
    /\ lastCall.op = "add_bmf_index"
           => lastCall.key \in bmf_regions /\ bmf_indices # << >>

\* C28: every call of Querier.from_file comes to an end, whatever the text
\* of the document, the empty text and a text without "<" included: it
\* returns a Querier or it raises.
C28_FromFileTerminates ==
    (from_file.pc = "while") ~> (from_file.pc \in {"returned", "raised"})

----------------------------------------------------------------------------
(* Properties of the indices the builders build *)

\* The rows of the document the last call built its index from
BuiltRows == DictReader(lastCall.file)

BuiltFromDocument ==
    /\ lastCall.op \in {"get_annual_index", "get_bmf_index"}
    /\ "file" \in DOMAIN lastCall

\* The last row in document order with the given EIN
LastRowOf(rows, ein) ==
    rows[CHOOSE j \in DOMAIN rows :
            /\ rows[j]["EIN"] = ein
            /\ \A k \in DOMAIN rows : rows[k]["EIN"] = ein => k <= j]

\* C29: the index get_annual_index or get_bmf_index builds from a document
\* and returns holds exactly one record for each distinct EIN of the rows of
\* the document, each under the key that is the ein of the record, and the
\* record of an EIN is the one of the last row with that EIN.
C29_OneRecordPerEIN ==
    BuiltFromDocument =>
        LET rows == BuiltRows
            index == heap[lastCall.ret]
            eins == {rows[j]["EIN"] : j \in DOMAIN rows}
        IN  /\ {index[i].key : i \in DOMAIN index} = eins
            /\ Len(index) = Cardinality(eins)
            /\ \A i \in DOMAIN index :
                   /\ index[i].val.ein = index[i].key
                   /\ LET row == LastRowOf(rows, index[i].key)
                      IN  \A n \in DOMAIN row :
                              index[i].val[Lower(n)] = row[n]

\* A call has built an index from a document in which two rows share an EIN
\* and differ in another column.
C29_Witness ==
    /\ BuiltFromDocument
    /\ \E j, k \in DOMAIN BuiltRows :
           /\ j < k
           /\ BuiltRows[j]["EIN"] = BuiltRows[k]["EIN"]
           /\ BuiltRows[j] # BuiltRows[k]
    /\ Len(heap[lastCall.ret]) = 1

====
